---- MODULE Spec2Model ----
(***************************************************************************)
(* Stock Scribe: the record store (Dexie tables of src/lib/db.ts), the     *)
(* cost-basis / profit-and-loss engine (getPortfolioSummary,               *)
(* calculateProfitLoss) and the currency conversion of the pages.          *)
(*                                                                         *)
(* JavaScript numbers are modelled as exact extended rationals: a record   *)
(* [n, d] with d > 0 is the fraction n/d in lowest terms, d = 0 is a       *)
(* non-finite value (n = 1: Infinity, n = -1: -Infinity, n = 0: NaN).      *)
(* Rounding of IEEE doubles is not modelled.                               *)
(***************************************************************************)
EXTENDS Integers, Sequences, FiniteSets, TLC

VARIABLES
    stocks,          \* db.stocks, in primary-key order (id = position)
    transactions,    \* db.transactions, in primary-key order (id = position)
    currencies,      \* db.currencies, in primary-key order
    settings,        \* db.settings, in primary-key order (id = position)
    result,          \* what the last engine call or loader returned
    pageCurrencies,  \* page state: the Currency records the page loaded
    exchangeRates,   \* page state: code -> rate lookup object
    defaultCurrency, \* page state: the display currency
    converted,       \* what the page last rendered from a conversion
    trip,            \* an amount shown in one currency and then shown back
    isPKRAdded,      \* settings page state: PKR was in the list or was added
    calls,           \* the getUserSettings calls in flight, by caller
    perm             \* the invocation of ensureStoragePermissions

vars == <<stocks, transactions, currencies, settings, result, pageCurrencies,
          exchangeRates, defaultCurrency, converted, trip, isPKRAdded, calls, perm>>

\* the state of a page (Transactions, Portfolio) and what it rendered
page == <<pageCurrencies, exchangeRates, defaultCurrency, converted>>

None == [op |-> "none"]

\* ------------------------------------------------------------ bounds
MaxTx == 3

\* how many effects call getUserSettings at a time
MaxCallers == 2

Callers == 1..MaxCallers

\* a caller with no call in flight
Idle == [pc |-> "idle"]

\* ensureStoragePermissions before it is invoked: where it stands, whether
\* the platform is native Android, whether the Toast plugin loaded, the
\* statuses observed, the requestPermissions calls made, the attempt in
\* hand, whether a call threw, and what it returned
NotInvoked ==
    [pc |-> "idle", native |-> FALSE, toast |-> FALSE, observed |-> << >>,
     requests |-> 0, attempt |-> 0, threw |-> FALSE, value |-> FALSE]

\* ------------------------------------------------------------ numbers
Abs(x) == IF x < 0 THEN -x ELSE x

Sgn(x) == IF x > 0 THEN 1 ELSE IF x < 0 THEN -1 ELSE 0

RECURSIVE GCD(_, _)
GCD(a, b) == IF b = 0 THEN a ELSE GCD(b, a % b)

\* the fraction n/d, d # 0, in lowest terms with a positive denominator
Rat(n, d) ==
    LET g == GCD(Abs(n), Abs(d))
    IN  [n |-> (Sgn(d) * n) \div g, d |-> Abs(d) \div g]

R(i) == [n |-> i, d |-> 1]

Zero == R(0)

One == R(1)

NaN == [n |-> 0, d |-> 0]

Inf(s) == [n |-> s, d |-> 0]

IsFinite(a) == a.d > 0

RNeg(a) == [n |-> -a.n, d |-> a.d]

\* a + b
RAdd(a, b) ==
    IF IsFinite(a) /\ IsFinite(b) THEN Rat(a.n * b.d + b.n * a.d, a.d * b.d)
    ELSE IF a = NaN \/ b = NaN THEN NaN
    ELSE IF IsFinite(a) THEN b
    ELSE IF IsFinite(b) THEN a
    ELSE IF a = b THEN a ELSE NaN

\* a - b
RSub(a, b) == RAdd(a, RNeg(b))

\* a * b
RMul(a, b) ==
    IF IsFinite(a) /\ IsFinite(b) THEN
        \* common factors are cancelled before multiplying
        LET g == GCD(Abs(a.n), b.d)
            h == GCD(Abs(b.n), a.d)
        IN  Rat((a.n \div g) * (b.n \div h), (a.d \div h) * (b.d \div g))
    ELSE IF a.n = 0 \/ b.n = 0 THEN NaN
    ELSE Inf(Sgn(a.n) * Sgn(b.n))

\* a / b : a finite number over zero is an infinity, 0/0 is NaN, no exception
RDiv(a, b) ==
    IF IsFinite(a) /\ IsFinite(b) THEN
        IF b.n # 0 THEN Rat(a.n * b.d, a.d * b.n)
        ELSE IF a.n = 0 THEN NaN ELSE Inf(Sgn(a.n))
    ELSE IF a = NaN \/ b = NaN THEN NaN
    ELSE IF IsFinite(a) THEN Zero
    ELSE IF IsFinite(b) THEN Inf(Sgn(a.n) * (IF b.n < 0 THEN -1 ELSE 1))
    ELSE NaN

\* a > 0 (false for NaN)
RGt0(a) == a.n > 0

\* a > b
RGt(a, b) ==
    IF IsFinite(a) /\ IsFinite(b) THEN a.n * b.d > b.n * a.d
    ELSE IF a = NaN \/ b = NaN THEN FALSE
    ELSE IF a = b THEN FALSE
    ELSE IF IsFinite(a) THEN b.n < 0 ELSE a.n > 0

\* Math.abs
RAbs(a) == [n |-> Abs(a.n), d |-> a.d]

\* JavaScript truthiness of a number: 0 and NaN are falsy
Truthy(a) == a.n # 0

\* ------------------------------------------------------------ the store
Users == {1, 2}

\* the stocks the users hold: ids are the auto-incremented primary keys
InitialStocks ==
    << [id |-> 1, ticker |-> "AAPL", currency |-> "USD", userId |-> 1],
       [id |-> 2, ticker |-> "MSFT", currency |-> "EUR", userId |-> 1],
       [id |-> 3, ticker |-> "AAPL", currency |-> "USD", userId |-> 2] >>

StockIds == {1, 2, 3}

TxTypes == {"buy", "sell"}

\* the (shares, price, date) a transaction form is filled in with:
\* shares and price are positive, the date is any day
Lots == { <<10, 100, 1>>, <<10, 120, 2>>, <<15, 150, 3>>, <<5, 120, 2>> }

\* the owner of a stock id
OwnerOf(stockId) == InitialStocks[stockId].userId


\* a Transaction record as the store holds it
Tx(userId, stockId, type, lot) ==
    [userId |-> userId, stockId |-> stockId, type |-> type,
     shares |-> lot[1], price |-> lot[2], date |-> lot[3],
     currency |-> InitialStocks[stockId].currency]

\* the transactions recorded: user 1 trades both of their stocks with every
\* lot, user 2 records one buy (their rows must stay out of user 1's view)
TxInputs ==
    { Tx(1, s, ty, lot) : s \in {1, 2}, ty \in TxTypes, lot \in Lots }
        \cup { Tx(2, 3, "buy", <<10, 100, 1>>) }

\* insert t into a list sorted by date, after the entries of the same date
RECURSIVE insertByDate(_, _)
insertByDate(sorted, t) ==
    IF sorted = << >> THEN <<t>>
    ELSE IF sorted[Len(sorted)].date - t.date <= 0 THEN Append(sorted, t)
    ELSE Append(insertByDate(SubSeq(sorted, 1, Len(sorted) - 1), t),
                sorted[Len(sorted)])

\* .sort((a, b) => a.date.getTime() - b.date.getTime()): stable, ascending
RECURSIVE sortByDate(_)
sortByDate(txs) ==
    IF txs = << >> THEN << >>
    ELSE insertByDate(sortByDate(SubSeq(txs, 1, Len(txs) - 1)), txs[Len(txs)])

\* mutant: the user's transactions are read back in date order
getTransactionsForUser_byDate(userId) ==
    sortByDate(SelectSeq(transactions, LAMBDA t : t.userId = userId))

\* where('userId').equals(userId).toArray(): primary-key order
getTransactionsForUser(userId) ==
    SelectSeq(transactions, LAMBDA t : t.userId = userId)

\* db.stocks.where('userId').equals(userId).toArray()
stocksOfUser(userId) == SelectSeq(stocks, LAMBDA s : s.userId = userId)

\* mutant: the map holds the stocks of every user
stockMapOf_everyUser(userId) ==
    [id \in {stocks[k].id : k \in DOMAIN stocks} |->
        (CHOOSE st \in {stocks[k] : k \in DOMAIN stocks} : st.id = id)]

\* new Map(stocks.map(stock => [stock.id, stock]))
stockMapOf(userId) ==
    LET own == stocksOfUser(userId)
    IN  [id \in {own[k].id : k \in DOMAIN own} |->
            (CHOOSE s \in {own[k] : k \in DOMAIN own} : s.id = id)]

\* a fresh portfolio item
newItem(stock) ==
    [stock |-> stock, shares |-> Zero, averageCost |-> Zero,
     totalCost |-> Zero, profitLoss |-> Zero]

\* mutant: the average is taken over the share count before the buy
buyStep_oldShareCount(item, tx) ==
    LET newShareCount == RAdd(item.shares, R(tx.shares))
        newCost == RAdd(item.totalCost, RMul(R(tx.price), R(tx.shares)))
    IN  [item EXCEPT !.totalCost = newCost,
                     !.shares = newShareCount,
                     !.averageCost = RDiv(newCost, item.shares)]

\* the buy branch
buyStep(item, tx) ==
    LET newShareCount == RAdd(item.shares, R(tx.shares))
        newCost == RAdd(item.totalCost, RMul(R(tx.price), R(tx.shares)))
    IN  [item EXCEPT !.totalCost = newCost,
                     !.shares = newShareCount,
                     !.averageCost = RDiv(newCost, newShareCount)]

\* the sell branch with its reset test and its reset as parameters
sellWith(item, tx, keep(_), resetAverage) ==
    LET shares1 == RSub(item.shares, R(tx.shares))
        saleValue == RMul(R(tx.price), R(tx.shares))
        costBasis == RMul(item.averageCost, R(tx.shares))
        profitLoss1 == RAdd(item.profitLoss, RSub(saleValue, costBasis))
    IN  IF keep(shares1)
        THEN [item EXCEPT !.shares = shares1,
                          !.profitLoss = profitLoss1,
                          !.totalCost = RMul(item.averageCost, shares1)]
        ELSE [item EXCEPT !.shares = shares1,
                          !.profitLoss = profitLoss1,
                          !.totalCost = Zero,
                          !.averageCost = IF resetAverage THEN Zero ELSE @]

\* mutant: the cost basis is kept while shares >= 0, reset only below zero
sellStep_keepAtZero(item, tx) ==
    sellWith(item, tx, LAMBDA sh : sh.n >= 0, TRUE)

\* mutant: the else branch zeroes totalCost only
sellStep_keepAverage(item, tx) ==
    sellWith(item, tx, RGt0, FALSE)

\* mutant: a sell of more than the held shares is ignored
sellStep_rejectOversell(item, tx) ==
    IF RGt(R(tx.shares), item.shares) THEN item
    ELSE sellWith(item, tx, RGt0, TRUE)

\* the else branch: every transaction that is not a buy is a sell
sellStep(item, tx) ==
    LET shares1 == RSub(item.shares, R(tx.shares))
        saleValue == RMul(R(tx.price), R(tx.shares))
        costBasis == RMul(item.averageCost, R(tx.shares))
        profitLoss1 == RAdd(item.profitLoss, RSub(saleValue, costBasis))
    IN  IF RGt0(shares1)
        THEN [item EXCEPT !.shares = shares1,
                          !.profitLoss = profitLoss1,
                          !.totalCost = RMul(item.averageCost, shares1)]
        ELSE [item EXCEPT !.shares = shares1,
                          !.profitLoss = profitLoss1,
                          !.totalCost = Zero,
                          !.averageCost = Zero]

\* one iteration of the loop body on the item of the transaction's stock
txStep(item, tx) ==
    IF tx.type = "buy" THEN buyStep(item, tx) ELSE sellStep(item, tx)

\* for (const tx of transactions) { ... } from position i on
RECURSIVE portfolioLoop(_, _, _, _)
portfolioLoop(txs, i, stockMap, portfolioItems) ==
    IF i > Len(txs) THEN portfolioItems
    ELSE LET tx == txs[i]
         IN  IF tx.stockId = 0 \/ tx.stockId \notin DOMAIN stockMap
             THEN portfolioLoop(txs, i + 1, stockMap, portfolioItems)
             ELSE LET items1 ==
                          IF tx.stockId \in DOMAIN portfolioItems
                          THEN portfolioItems
                          ELSE portfolioItems @@
                               (tx.stockId :> newItem(stockMap[tx.stockId]))
                  IN  portfolioLoop(txs, i + 1, stockMap,
                          [items1 EXCEPT ![tx.stockId] = txStep(@, tx)])

\* Object.values of an object with integer keys: ascending key order
RECURSIVE objectValues(_)
objectValues(obj) ==
    IF DOMAIN obj = {} THEN << >>
    ELSE LET k == CHOOSE x \in DOMAIN obj : \A y \in DOMAIN obj : x <= y
         IN  <<obj[k]>> \o objectValues([y \in DOMAIN obj \ {k} |-> obj[y]])

getPortfolioSummary(userId) ==
    objectValues(portfolioLoop(getTransactionsForUser(userId), 1,
                               stockMapOf(userId), << >>))

\* mutant: the stock's buys are consumed in array order, unsorted
buyTransactionsOf_unsorted(transaction, previousTransactions) ==
    SelectSeq(previousTransactions,
        LAMBDA t : t.stockId = transaction.stockId /\ t.type = "buy")

\* mutant: the oldest lot is taken as used up once an earlier sell of the
\* stock is among the previous transactions
buyTransactionsOf_lessSold(transaction, previousTransactions) ==
    LET buys == sortByDate(SelectSeq(previousTransactions,
                    LAMBDA t : t.stockId = transaction.stockId /\ t.type = "buy"))
    IN  IF buys # << >> /\ \E k \in DOMAIN previousTransactions :
               /\ previousTransactions[k].stockId = transaction.stockId
               /\ previousTransactions[k].type = "sell"
        THEN Tail(buys)
        ELSE buys

\* the filter of the stock's buys, then the sort
buyTransactionsOf(transaction, previousTransactions) ==
    sortByDate(SelectSeq(previousTransactions,
        LAMBDA t : t.stockId = transaction.stockId /\ t.type = "buy"))

\* mutant: the shares no lot covers are costed at the price of the last lot
RECURSIVE fifoLoop_shortfallAtLastPrice(_, _, _, _)
fifoLoop_shortfallAtLastPrice(buyTransactions, i, remainingShares, costBasis) ==
    IF i > Len(buyTransactions) THEN
        IF buyTransactions = << >> THEN costBasis
        ELSE RAdd(costBasis,
                  RMul(remainingShares,
                       R(buyTransactions[Len(buyTransactions)].price)))
    ELSE IF ~RGt0(remainingShares) THEN costBasis
    ELSE LET buyTx == buyTransactions[i]
             sharesUsed == IF RGt(R(buyTx.shares), remainingShares)
                           THEN remainingShares ELSE R(buyTx.shares)
         IN  fifoLoop_shortfallAtLastPrice(buyTransactions, i + 1,
                      RSub(remainingShares, sharesUsed),
                      RAdd(costBasis, RMul(sharesUsed, R(buyTx.price))))

\* for (const buyTx of buyTransactions) { ... } from position i on
RECURSIVE fifoLoop(_, _, _, _)
fifoLoop(buyTransactions, i, remainingShares, costBasis) ==
    IF i > Len(buyTransactions) THEN costBasis
    ELSE IF ~RGt0(remainingShares) THEN costBasis
    ELSE LET buyTx == buyTransactions[i]
             sharesUsed == IF RGt(R(buyTx.shares), remainingShares)
                           THEN remainingShares ELSE R(buyTx.shares)
         IN  fifoLoop(buyTransactions, i + 1,
                      RSub(remainingShares, sharesUsed),
                      RAdd(costBasis, RMul(sharesUsed, R(buyTx.price))))

calculateProfitLoss(transaction, previousTransactions) ==
    IF transaction.type = "buy" THEN Zero
    ELSE LET costBasis == fifoLoop(
                 buyTransactionsOf(transaction, previousTransactions),
                 1, R(transaction.shares), Zero)
             revenue == RMul(R(transaction.shares), R(transaction.price))
         IN  RSub(revenue, costBasis)

\* mutant: the transactions of the sell's own date are offered too
previousTxsOf_sameDate(tx) ==
    SelectSeq(transactions,
              LAMBDA t : t.stockId = tx.stockId /\ t.date <= tx.date)

\* where('stockId').equals(tx.stockId).and(t => t.date < tx.date).toArray()
previousTxsOf(tx) ==
    SelectSeq(transactions,
              LAMBDA t : t.stockId = tx.stockId /\ t.date < tx.date)

\* ------------------------------------------------------------ actions
\* addTransaction(transaction): db.transactions.add
AddTransaction(tx) ==
    /\ Len(transactions) < MaxTx
    /\ transactions' = Append(transactions, tx)
    /\ result' = None
    /\ UNCHANGED <<stocks, currencies, settings, page, trip, isPKRAdded, calls, perm>>

\* a page calls getPortfolioSummary(userId) and keeps what it returns
GetPortfolioSummary(userId) ==
    /\ result' = [op |-> "getPortfolioSummary", userId |-> userId,
                  value |-> getPortfolioSummary(userId)]
    /\ UNCHANGED <<stocks, transactions, currencies, settings, page, trip, isPKRAdded, calls, perm>>

\* the report loop costs the stored transaction number i against the
\* earlier transactions of its stock
CalculateProfitLoss(i) ==
    /\ i \in DOMAIN transactions
    /\ result' = [op |-> "calculateProfitLoss", tx |-> transactions[i],
                  previousTxs |-> previousTxsOf(transactions[i]),
                  value |-> calculateProfitLoss(transactions[i],
                                                previousTxsOf(transactions[i]))]
    /\ UNCHANGED <<stocks, transactions, currencies, settings, page, trip, isPKRAdded, calls, perm>>

InitEngine ==
    /\ stocks = InitialStocks
    /\ transactions = << >>
    /\ currencies = << >>
    /\ settings = << >>
    /\ result = None
    /\ pageCurrencies = << >>
    /\ exchangeRates = << >>
    /\ defaultCurrency = "USD"
    /\ converted = None
    /\ trip = None
    /\ isPKRAdded = FALSE
    /\ calls = [c \in Callers |-> Idle]
    /\ perm = NotInvoked

NextPortfolio ==
    \/ \E tx \in TxInputs : AddTransaction(tx)
    \/ \E u \in Users : GetPortfolioSummary(u)

\* the store and the portfolio view
SpecPortfolio == InitEngine /\ [][NextPortfolio]_vars

NextFifo ==
    \/ \E tx \in TxInputs : AddTransaction(tx)
    \/ \E i \in 1..MaxTx : CalculateProfitLoss(i)

\* the store and the FIFO costing of its transactions
SpecFifo == InitEngine /\ [][NextFifo]_vars

\* ------------------------------------------------------------ the report
\* a date is a count of clock ticks; so many ticks make a calendar day
TicksPerDay == 2

\* tx.date.toISOString().split('T')[0]: the calendar day of the instant;
\* day numbers order as the YYYY-MM-DD strings do
toISODate(date) == date \div TicksPerDay

\* mutant: the end of the range is exclusive
inRange_exclusiveEnd(tx, startDate, endDate) ==
    tx.date >= startDate /\ tx.date < endDate

\* txDate >= startDate.getTime() && txDate <= endDate.getTime()
inRange(tx, startDate, endDate) ==
    tx.date >= startDate /\ tx.date <= endDate

\* mutant: no stock bucket is prepared
stockBuckets_none(own) == << >>

\* stocks.forEach(stock => { if (stock.id) stockProfitLoss[stock.id] = ... })
stockBuckets(own) ==
    [id \in {own[k].id : k \in DOMAIN own} \ {0} |->
        [stock |-> (CHOOSE st \in {own[k] : k \in DOMAIN own} : st.id = id),
         profit |-> Zero, loss |-> Zero, net |-> Zero]]

\* mutant: a loss is accumulated with its sign
addTo_signedLoss(bucket, profitLoss) ==
    [bucket EXCEPT
        !.profit = IF RGt0(profitLoss) THEN RAdd(@, profitLoss) ELSE @,
        !.loss = IF RGt0(profitLoss) THEN @ ELSE RAdd(@, profitLoss),
        !.net = RAdd(@, profitLoss)]

\* if (profitLoss > 0) profit += profitLoss; else loss += Math.abs(profitLoss);
\* net += profitLoss
addTo(bucket, profitLoss) ==
    [bucket EXCEPT
        !.profit = IF RGt0(profitLoss) THEN RAdd(@, profitLoss) ELSE @,
        !.loss = IF RGt0(profitLoss) THEN @ ELSE RAdd(@, RAbs(profitLoss)),
        !.net = RAdd(@, profitLoss)]

\* the position of the entry of dateStr in the daily object, 0 when the key
\* is not there
indexOfDate(daily, dateStr) ==
    IF \E k \in DOMAIN daily : daily[k].date = dateStr
    THEN CHOOSE k \in DOMAIN daily : daily[k].date = dateStr
    ELSE 0

\* for (const tx of transactions) { ... } from position i on; daily holds the
\* entries of dailyProfitLoss in the order their keys were inserted
RECURSIVE reportLoop(_, _, _, _)
reportLoop(txs, i, daily, stockProfitLoss) ==
    IF i > Len(txs) THEN [daily |-> daily, stocks |-> stockProfitLoss]
    ELSE LET tx == txs[i]
         IN  IF tx.type # "sell"
             THEN reportLoop(txs, i + 1, daily, stockProfitLoss)
             ELSE LET previousTxs == previousTxsOf(tx)
                      profitLoss == calculateProfitLoss(tx, previousTxs)
                      dateStr == toISODate(tx.date)
                      daily1 ==
                          IF indexOfDate(daily, dateStr) = 0
                          THEN Append(daily, [date |-> dateStr, profit |-> Zero,
                                              loss |-> Zero, net |-> Zero])
                          ELSE daily
                      daily2 ==
                          [daily1 EXCEPT ![indexOfDate(daily1, dateStr)] =
                              addTo(@, profitLoss)]
                      stocks2 ==
                          IF tx.stockId # 0 /\ tx.stockId \in DOMAIN stockProfitLoss
                          THEN [stockProfitLoss EXCEPT ![tx.stockId] =
                                   addTo(@, profitLoss)]
                          ELSE stockProfitLoss
                  IN  reportLoop(txs, i + 1, daily2, stocks2)

\* insert e into a list sorted by date string, after the equal entries
RECURSIVE insertByDateStr(_, _)
insertByDateStr(sorted, e) ==
    IF sorted = << >> THEN <<e>>
    ELSE IF sorted[Len(sorted)].date <= e.date THEN Append(sorted, e)
    ELSE Append(insertByDateStr(SubSeq(sorted, 1, Len(sorted) - 1), e),
                sorted[Len(sorted)])

\* .sort((a, b) => a.date.localeCompare(b.date)): stable, ascending
RECURSIVE sortByDateStr(_)
sortByDateStr(entries) ==
    IF entries = << >> THEN << >>
    ELSE insertByDateStr(sortByDateStr(SubSeq(entries, 1, Len(entries) - 1)),
                         entries[Len(entries)])

\* insert e into a list sorted by descending net, after the equal entries
RECURSIVE insertByNet(_, _)
insertByNet(sorted, e) ==
    IF sorted = << >> THEN <<e>>
    ELSE IF ~RGt(e.net, sorted[Len(sorted)].net) THEN Append(sorted, e)
    ELSE Append(insertByNet(SubSeq(sorted, 1, Len(sorted) - 1), e),
                sorted[Len(sorted)])

\* mutant: the stock entries are left in the order of the stock ids
sortByNet_unsorted(entries) == entries

\* .sort((a, b) => b.net - a.net): stable, descending
RECURSIVE sortByNet(_)
sortByNet(entries) ==
    IF entries = << >> THEN << >>
    ELSE insertByNet(sortByNet(SubSeq(entries, 1, Len(entries) - 1)),
                     entries[Len(entries)])

getProfitLossReport(userId, startDate, endDate) ==
    LET txs == SelectSeq(transactions,
                   LAMBDA tx : tx.userId = userId /\ inRange(tx, startDate, endDate))
        own == stocksOfUser(userId)
        acc == reportLoop(txs, 1, << >>, stockBuckets(own))
    IN  [daily |-> sortByDateStr(acc.daily),
         stocks |-> sortByNet(objectValues(acc.stocks))]

\* a page calls getProfitLossReport(userId, startDate, endDate) and keeps
\* what it returns
GetProfitLossReport(userId, startDate, endDate) ==
    /\ result' = [op |-> "getProfitLossReport", userId |-> userId,
                  startDate |-> startDate, endDate |-> endDate,
                  value |-> getProfitLossReport(userId, startDate, endDate)]
    /\ UNCHANGED <<stocks, transactions, currencies, settings, page, trip, isPKRAdded, calls, perm>>

\* the transactions recorded before a report is drawn: user 1 buys stock 1
\* twice and sells it at a profit, at a loss and at cost, sells stock 2 with
\* no lot behind it, and sells a stock that is user 2's (the ticker lookup
\* of the form finds any user's stock); user 2 buys and sells their stock
ReportInputs ==
    { Tx(1, 1, "buy", <<10, 100, 1>>), Tx(1, 1, "buy", <<10, 120, 2>>),
      Tx(1, 1, "sell", <<10, 150, 3>>), Tx(1, 1, "sell", <<10, 90, 2>>),
      Tx(1, 1, "sell", <<10, 100, 4>>), Tx(1, 2, "sell", <<5, 120, 3>>),
      Tx(1, 3, "sell", <<5, 120, 3>>),
      Tx(2, 3, "buy", <<10, 100, 1>>), Tx(2, 3, "sell", <<5, 120, 3>>) }

\* the (startDate, endDate) a report is asked for
Ranges == { <<1, 4>>, <<2, 3>>, <<3, 4>> }

NextReport ==
    \/ \E tx \in ReportInputs : AddTransaction(tx)
    \/ \E u \in Users, rg \in Ranges : GetProfitLossReport(u, rg[1], rg[2])
    \/ \E u \in Users : GetPortfolioSummary(u)

\* the store, the profit-and-loss report and the portfolio view
SpecReport == InitEngine /\ [][NextReport]_vars

\* ------------------------------------------------------------ currencies
\* a value that is not there (a missing key, a failed fetch): falsy, and NaN
\* in arithmetic
Undefined == NaN

\* defaultCurrencies: USD 1, EUR 0.91, GBP 0.78, JPY 151.58
DefaultCurrencies ==
    << [id |-> 1, code |-> "USD", exchangeRate |-> One],
       [id |-> 2, code |-> "EUR", exchangeRate |-> Rat(91, 100)],
       [id |-> 3, code |-> "GBP", exchangeRate |-> Rat(78, 100)],
       [id |-> 4, code |-> "JPY", exchangeRate |-> Rat(15158, 100)] >>

\* how many currencies the user adds on top of the defaults
MaxAdded == 1

\* the user the pages are logged in as
LoggedIn == {1}

\* what is typed into the add-currency form
NewCodes == {"PKR", "eur"}

NewRates == {Zero, R(2)}

\* data.rates[code] of the rate service: missing, or 278.5
ApiRates == {Undefined, Rat(557, 2)}

\* String.prototype.toUpperCase on the codes entered
toUpperCase(code) == IF code = "eur" THEN "EUR" ELSE code

\* onChange of the code input: setNewCode(e.target.value.toUpperCase())
setNewCode(typed) == toUpperCase(typed)

\* how many records of the table are not the defaults
added(table) ==
    Cardinality({k \in DOMAIN table :
        k > Len(DefaultCurrencies) \/ table[k] # DefaultCurrencies[k]})

\* initializeDatabase(): the defaults are added to an empty table only
InitializeDatabase ==
    /\ currencies' = IF Len(currencies) = 0 THEN DefaultCurrencies ELSE currencies
    /\ UNCHANGED <<stocks, transactions, settings, result, page, trip, isPKRAdded, calls, perm>>

\* handleAddCurrency with the form holding newCode, newRate; the list the
\* component checks against is the table's content
HandleAddCurrency(newCode, rateValue, apiRate) ==
    /\ added(currencies) < MaxAdded
    /\ LET exists == \E k \in DOMAIN currencies : currencies[k].code = newCode
           finalRate == IF Truthy(apiRate) THEN apiRate ELSE rateValue
       IN  IF exists \/ rateValue = NaN \/ ~RGt0(rateValue)
           THEN UNCHANGED currencies
           ELSE currencies' = Append(currencies,
                    [id |-> Len(currencies) + 1,
                     code |-> toUpperCase(newCode),
                     exchangeRate |-> finalRate])
    /\ UNCHANGED <<stocks, transactions, settings, result, page, trip, isPKRAdded, calls, perm>>

\* mutant: a default record is added whether or not one is stored
getUserSettings_alwaysAdd(userId) ==
    LET fresh == [id |-> Len(settings) + 1, userId |-> userId,
                  defaultCurrency |-> "USD", darkMode |-> FALSE]
    IN  [table |-> Append(settings, fresh), value |-> fresh]

\* getUserSettings(userId): the stored record, or a new default one; table
\* is db.settings after the call, value what the call returns
getUserSettings(userId) ==
    LET own == SelectSeq(settings, LAMBDA r : r.userId = userId)
        fresh == [id |-> Len(settings) + 1, userId |-> userId,
                  defaultCurrency |-> "USD", darkMode |-> FALSE]
    IN  IF own # << >>
        THEN [table |-> settings, value |-> own[1]]
        ELSE [table |-> Append(settings, fresh), value |-> fresh]

\* handleSaveSettings with the page holding defaultCurrency and darkMode
HandleSaveSettings(userId, code, dark) ==
    /\ LET got == getUserSettings(userId)
       IN  settings' = [got.table EXCEPT ![got.value.id] =
                           [@ EXCEPT !.defaultCurrency = code, !.darkMode = dark]]
    /\ UNCHANGED <<stocks, transactions, currencies, result, page, trip, isPKRAdded, calls, perm>>

\* allCurrencies.forEach(curr => { rates[curr.code] = curr.exchangeRate })
RECURSIVE ratesLoop(_, _, _)
ratesLoop(allCurrencies, i, rates) ==
    IF i > Len(allCurrencies) THEN rates
    ELSE LET curr == allCurrencies[i]
         IN  ratesLoop(allCurrencies, i + 1,
                 [c \in DOMAIN rates \cup {curr.code} |->
                     IF c = curr.code THEN curr.exchangeRate ELSE rates[c]])

\* the loadCurrencies effect of a page; the page renders again
LoadCurrencies(userId) ==
    LET allCurrencies == currencies
        got == getUserSettings(userId)
    IN  /\ pageCurrencies' = allCurrencies
        /\ exchangeRates' = ratesLoop(allCurrencies, 1, << >>)
        /\ settings' = got.table
        /\ defaultCurrency' = IF got.value.defaultCurrency # ""
                              THEN got.value.defaultCurrency
                              ELSE defaultCurrency
        /\ converted' = None
        /\ UNCHANGED <<stocks, transactions, currencies, result, trip, isPKRAdded, calls, perm>>

\* mutant: a missing rate is not replaced by 1
rateOf_noFallback(code) ==
    IF code \in DOMAIN exchangeRates THEN exchangeRates[code] ELSE Undefined

\* exchangeRates[code] || 1
rateOf(code) ==
    IF code \in DOMAIN exchangeRates /\ Truthy(exchangeRates[code])
    THEN exchangeRates[code]
    ELSE One

\* mutant: the amount is converted to the base currency, whatever the
\* display currency
convertCurrency_toBase(amount, fromCurrency) ==
    RMul(amount, RDiv(One, rateOf(fromCurrency)))

\* mutant: the ratio is inverted
convertCurrency_inverted(amount, fromCurrency) ==
    IF fromCurrency = defaultCurrency THEN amount
    ELSE RMul(amount, RDiv(rateOf(fromCurrency), rateOf(defaultCurrency)))

\* mutant: the amount is multiplied by both rates
convertCurrency_times(amount, fromCurrency) ==
    IF fromCurrency = defaultCurrency THEN amount
    ELSE RMul(amount, RMul(rateOf(defaultCurrency), rateOf(fromCurrency)))

\* convertCurrency of the Transactions page
convertCurrency(amount, fromCurrency) ==
    IF fromCurrency = defaultCurrency THEN amount
    ELSE LET fromRate == rateOf(fromCurrency)
             toRate == rateOf(defaultCurrency)
         IN  RMul(amount, RDiv(toRate, fromRate))

\* the conversionRate of the Portfolio page for a stock's currency
conversionRate(stockCurrency) ==
    LET fromRate == rateOf(stockCurrency)
        toRate == rateOf(defaultCurrency)
    IN  RDiv(toRate, fromRate)

\* the amounts and currency codes a page converts
Amounts == {R(-600), Zero, R(550)}

FromCodes == {"USD", "EUR", "PKR", "CHF"}

\* the Transactions page renders an amount of a transaction
ConvertCurrency(amount, fromCurrency) ==
    /\ converted' = [op |-> "convertCurrency", amount |-> amount,
                     fromCurrency |-> fromCurrency,
                     value |-> convertCurrency(amount, fromCurrency)]
    /\ UNCHANGED <<stocks, transactions, currencies, settings, result,
                   pageCurrencies, exchangeRates, defaultCurrency, trip, isPKRAdded, calls, perm>>

\* summary.map(item => ...) of loadPortfolio
convertedSummary(summary) ==
    [k \in DOMAIN summary |->
        LET item == summary[k]
            rate == conversionRate(item.stock.currency)
        IN  [stock |-> item.stock, shares |-> item.shares,
             originalCurrency |-> item.stock.currency,
             totalCost |-> RMul(item.totalCost, rate),
             profitLoss |-> RMul(item.profitLoss, rate),
             averageCost |-> RMul(item.averageCost, rate)]]

\* the loadPortfolio effect of the Portfolio page
LoadPortfolio(userId) ==
    /\ converted' = IF DOMAIN exchangeRates = {} THEN converted
                    ELSE [op |-> "loadPortfolio", userId |-> userId,
                          value |-> convertedSummary(getPortfolioSummary(userId))]
    /\ UNCHANGED <<stocks, transactions, currencies, settings, result,
                   pageCurrencies, exchangeRates, defaultCurrency, trip, isPKRAdded, calls, perm>>

\* the transactions user 1 has recorded when the pages are opened
Ledger ==
    << Tx(1, 1, "buy", <<10, 100, 1>>), Tx(1, 1, "buy", <<10, 120, 2>>),
       Tx(1, 1, "sell", <<15, 150, 3>>), Tx(1, 2, "buy", <<5, 120, 2>>) >>

InitCurrency ==
    /\ stocks = InitialStocks
    /\ transactions = Ledger
    /\ currencies = << >>
    /\ settings = << >>
    /\ result = None
    /\ pageCurrencies = << >>
    /\ exchangeRates = << >>
    /\ defaultCurrency = "USD"
    /\ converted = None
    /\ trip = None
    /\ isPKRAdded = FALSE
    /\ calls = [c \in Callers |-> Idle]
    /\ perm = NotInvoked

\* the codes the default-currency select offers
OfferedCodes == {"USD"} \cup {currencies[k].code : k \in DOMAIN currencies}

NextCurrency ==
    \/ InitializeDatabase
    \/ \E c \in NewCodes, r \in NewRates, a \in ApiRates :
           HandleAddCurrency(setNewCode(c), r, a)
    \/ \E u \in LoggedIn, c \in OfferedCodes, d \in BOOLEAN : HandleSaveSettings(u, c, d)
    \/ \E u \in LoggedIn : LoadCurrencies(u)
    \/ \E a \in Amounts, c \in FromCodes : ConvertCurrency(a, c)
    \/ \E u \in LoggedIn : LoadPortfolio(u)

\* the currency table, the settings and the converting pages
SpecCurrency == InitCurrency /\ [][NextCurrency]_vars

\* the Transactions page renders an amount of fromCurrency in the display
\* currency, and the figure shown is kept
ConvertThere(amount, fromCurrency) ==
    /\ trip' = [leg |-> 1, amount |-> amount, from |-> fromCurrency,
                to |-> defaultCurrency, rates |-> exchangeRates,
                value |-> convertCurrency(amount, fromCurrency),
                back |-> Undefined, backRates |-> << >>]
    /\ UNCHANGED <<stocks, transactions, currencies, settings, result, page,
                   isPKRAdded, calls, perm>>

\* with the display currency now the one the amount came from, the page
\* renders the figure kept, an amount of the former display currency
ConvertBack ==
    /\ trip # None
    /\ trip.leg = 1
    /\ defaultCurrency = trip.from
    /\ trip' = [trip EXCEPT !.leg = 2,
                            !.back = convertCurrency(trip.value, trip.to),
                            !.backRates = exchangeRates]
    /\ UNCHANGED <<stocks, transactions, currencies, settings, result, page,
                   isPKRAdded, calls, perm>>

NextRoundTrip ==
    \/ InitializeDatabase
    \/ \E c \in NewCodes, r \in NewRates, a \in ApiRates :
           HandleAddCurrency(setNewCode(c), r, a)
    \/ \E u \in LoggedIn, c \in OfferedCodes : HandleSaveSettings(u, c, FALSE)
    \/ \E u \in LoggedIn : LoadCurrencies(u)
    \/ \E a \in Amounts, c \in FromCodes : ConvertThere(a, c)
    \/ ConvertBack

\* the currency table, the settings and an amount converted there and back
SpecRoundTrip == InitCurrency /\ [][NextRoundTrip]_vars

\* ------------------------------------------------------------ the loader
\* a Transaction record stored without its optional currency field
TxBare(userId, stockId, type, lot) ==
    [Tx(userId, stockId, type, lot) EXCEPT !.currency = ""]

\* db.stocks.get(id): the record of that primary key, or None
stockGet(id) ==
    IF \E k \in DOMAIN stocks : stocks[k].id = id
    THEN stocks[CHOOSE k \in DOMAIN stocks : stocks[k].id = id]
    ELSE None

\* mutant: every transaction is given its stock's currency
needsCurrency_always(tx) == TRUE

\* !tx.currency
needsCurrency(tx) == tx.currency = ""

\* for (let tx of txs) { if (!tx.currency) ... } over the records of the
\* user from primary key k on: table is db.transactions, txs the list the
\* page keeps
RECURSIVE backfillLoop(_, _, _, _)
backfillLoop(userId, k, table, txs) ==
    IF k > Len(table) THEN [table |-> table, txs |-> txs]
    ELSE LET tx == table[k]
         IN  IF tx.userId # userId THEN backfillLoop(userId, k + 1, table, txs)
             ELSE IF ~needsCurrency(tx)
             THEN backfillLoop(userId, k + 1, table, Append(txs, tx))
             ELSE LET stock == stockGet(tx.stockId)
                  IN  IF stock # None
                      THEN backfillLoop(userId, k + 1,
                               [table EXCEPT ![k].currency = stock.currency],
                               Append(txs, [tx EXCEPT !.currency = stock.currency]))
                      ELSE backfillLoop(userId, k + 1, table,
                               Append(txs, [tx EXCEPT !.currency = "USD"]))

\* the loadTransactions effect of the Transactions page
LoadTransactions(userId) ==
    LET loaded == backfillLoop(userId, 1, transactions, << >>)
    IN  /\ transactions' = loaded.table
        /\ result' = [op |-> "loadTransactions", userId |-> userId,
                      value |-> loaded.txs]
        /\ UNCHANGED <<stocks, currencies, settings, page, trip, isPKRAdded, calls, perm>>

\* the transactions recorded before the pages are opened: with the stock's
\* currency, with a currency of the user's choice, and without a currency,
\* on the user's own stocks and on another user's
LoaderInputs ==
    { Tx(1, 1, "buy", <<10, 100, 1>>),
      [Tx(1, 2, "buy", <<5, 120, 2>>) EXCEPT !.currency = "USD"],
      TxBare(1, 1, "sell", <<10, 150, 3>>),
      TxBare(1, 2, "sell", <<5, 120, 3>>),
      TxBare(1, 3, "sell", <<5, 120, 3>>),
      TxBare(2, 3, "buy", <<10, 100, 1>>) }

NextLoader ==
    \/ \E tx \in LoaderInputs : AddTransaction(tx)
    \/ \E u \in Users : GetPortfolioSummary(u)
    \/ \E u \in Users, rg \in Ranges : GetProfitLossReport(u, rg[1], rg[2])
    \/ \E u \in Users : LoadTransactions(u)
    \/ \E u \in LoggedIn : LoadCurrencies(u)

\* the store, the engine's two reads and the loaders of the Transactions page
SpecLoader == InitEngine /\ [][NextLoader]_vars

\* ------------------------------------------------------------ add PKR
\* the settings component is mounted with the list of the table:
\* useState(currencies.some(c => c.code === 'PKR'))
OpenSettings ==
    /\ isPKRAdded' = \E k \in DOMAIN currencies : currencies[k].code = "PKR"
    /\ UNCHANGED <<stocks, transactions, currencies, settings, result, page, trip,
                   calls, perm>>

\* handleAddPKR: nothing when isPKRAdded; else PKR is added with the rate of
\* the service, or 278.5
HandleAddPKR(apiRate) ==
    /\ IF isPKRAdded
       THEN UNCHANGED <<currencies, isPKRAdded, calls, perm>>
       ELSE /\ currencies' = Append(currencies,
                    [id |-> Len(currencies) + 1, code |-> "PKR",
                     exchangeRate |-> IF Truthy(apiRate) THEN apiRate
                                      ELSE Rat(557, 2)])
            /\ isPKRAdded' = TRUE
    /\ UNCHANGED <<stocks, transactions, settings, result, page, trip, calls, perm>>

NextCurrencyTable ==
    \/ NextCurrency
    \/ OpenSettings
    \/ \E a \in ApiRates : HandleAddPKR(a)

\* the currency table under every operation that adds to it, and the pages
SpecCurrencyTable == InitCurrency /\ [][NextCurrencyTable]_vars

\* ------------------------------------------------------------ settings
\* a page calls getUserSettings(userId) and keeps what it returns
GetUserSettings(userId) ==
    LET got == getUserSettings(userId)
    IN  /\ settings' = got.table
        /\ result' = [op |-> "getUserSettings", userId |-> userId,
                      value |-> got.value]
        /\ UNCHANGED <<stocks, transactions, currencies, page, trip, isPKRAdded, calls, perm>>

NextSettings ==
    \/ InitializeDatabase
    \/ \E u \in Users, c \in OfferedCodes, d \in BOOLEAN : HandleSaveSettings(u, c, d)
    \/ \E u \in Users : GetUserSettings(u)

\* the settings table, read and saved by either user
SpecSettings == InitEngine /\ [][NextSettings]_vars

\* ------------------------------------------------------------ stocks
\* the ticker symbols entered
Tickers == {"AAPL", "MSFT", "TSLA"}

\* the stocks addStock is called with
StockInputs ==
    [ticker : Tickers, currency : {"USD", "EUR"}, userId : Users]

\* mutant: the stock is added without looking for an existing one
addStock_alwaysAdd(stock) ==
    [table |-> Append(stocks,
                  [id |-> Len(stocks) + 1, ticker |-> stock.ticker,
                   currency |-> stock.currency, userId |-> stock.userId]),
     value |-> Len(stocks) + 1]

\* addStock(stock): the id of the user's stock of that ticker, added when
\* it is not there; table is db.stocks after the call
addStock(stock) ==
    LET existingStock ==
            SelectSeq(stocks, LAMBDA st : /\ st.userId = stock.userId
                                          /\ st.ticker = stock.ticker)
    IN  IF existingStock # << >>
        THEN [table |-> stocks, value |-> existingStock[1].id]
        ELSE [table |-> Append(stocks,
                           [id |-> Len(stocks) + 1, ticker |-> stock.ticker,
                            currency |-> stock.currency, userId |-> stock.userId]),
              value |-> Len(stocks) + 1]

\* a caller awaits addStock(stock) and keeps the id
AddStock(stock) ==
    LET got == addStock(stock)
    IN  /\ stocks' = got.table
        /\ result' = [op |-> "addStock", stock |-> stock, value |-> got.value]
        /\ UNCHANGED <<transactions, currencies, settings, page, trip, isPKRAdded, calls, perm>>

NextStocks == \E stock \in StockInputs : AddStock(stock)

\* the stocks table under addStock calls made one after another
SpecStocks == InitEngine /\ [][NextStocks]_vars

\* ------------------------------------------------------------ settings, interleaved
\* an effect with no call in flight calls getUserSettings(userId): the
\* query for the user's record is issued and awaited
CallGetUserSettings(c, userId) ==
    /\ calls[c].pc \in {"idle", "returned"}
    /\ calls' = [calls EXCEPT ![c] = [pc |-> "query", userId |-> userId]]
    /\ UNCHANGED <<stocks, transactions, currencies, settings, result, page, trip,
                   isPKRAdded, perm>>

\* where('userId').equals(userId).first() resolves: with a record the call
\* returns it, without one it goes on to add
QueryResolves(c) ==
    /\ calls[c].pc = "query"
    /\ LET own == SelectSeq(settings, LAMBDA r : r.userId = calls[c].userId)
       IN  calls' = [calls EXCEPT ![c] =
                        IF own # << >>
                        THEN [pc |-> "returned", userId |-> calls[c].userId,
                              value |-> own[1]]
                        ELSE [pc |-> "add", userId |-> calls[c].userId]]
    /\ UNCHANGED <<stocks, transactions, currencies, settings, result, page, trip,
                   isPKRAdded, perm>>

\* db.settings.add({userId, 'USD', false}) resolves and the call returns
\* the record with its new id
AddResolves(c) ==
    /\ calls[c].pc = "add"
    /\ LET fresh == [id |-> Len(settings) + 1, userId |-> calls[c].userId,
                     defaultCurrency |-> "USD", darkMode |-> FALSE]
       IN  /\ settings' = Append(settings, fresh)
           /\ calls' = [calls EXCEPT ![c] =
                            [pc |-> "returned", userId |-> calls[c].userId,
                             value |-> fresh]]
    /\ UNCHANGED <<stocks, transactions, currencies, result, page, trip,
                   isPKRAdded, perm>>

NextSettingsRace ==
    \/ \E c \in Callers, u \in Users : CallGetUserSettings(c, u)
    \/ \E c \in Callers : QueryResolves(c)
    \/ \E c \in Callers : AddResolves(c)

\* getUserSettings called by several effects whose awaits interleave
SpecSettingsRace == InitEngine /\ [][NextSettingsRace]_vars

\* ------------------------------------------------------------ new-transaction form
\* z.enum(["Buy", "Sell"]): the kinds the form validates and submits
FormTypes == {"Buy", "Sell"}

\* what the form is submitted with: a ticker, a kind and positive shares and
\* price (a purchase on day 1, a sale on day 3); the currency field is left
\* at its default
FormInputs ==
    { [ticker |-> tk, type |-> ty, currency |-> "USD",
       shares |-> IF ty = "Buy" THEN 10 ELSE 5,
       price |-> IF ty = "Buy" THEN 100 ELSE 120,
       date |-> IF ty = "Buy" THEN 1 ELSE 3] : tk \in Tickers, ty \in FormTypes }

\* the userId of a Stock record stored without one
NoUser == 0

\* db.stocks.where('ticker').equals(ticker).first(): the record of lowest
\* primary key with that ticker, whoever owns it, or None
getStock(ticker) ==
    LET found == SelectSeq(stocks, LAMBDA s : s.ticker = ticker)
    IN  IF found = << >> THEN None ELSE found[1]

\* what addStock({ticker, name, currency}) can do when the form calls it
\* with no userId: its lookup by [userId+ticker] has an undefined key part,
\* so the call rejects, or matches nothing and adds the record as given
AddStockOutcomes == {"rejects", "adds"}

\* the record addTransaction is given by the form
formTransaction(userId, stockId, data) ==
    [userId |-> userId, stockId |-> stockId, type |-> data.type,
     shares |-> data.shares, price |-> data.price, date |-> data.date]

\* onSubmit(data) for the logged-in user
OnSubmit(currentUser, data, outcome) ==
    /\ Len(transactions) < MaxTx
    /\ LET existingStock == getStock(data.ticker)
       IN  IF existingStock # None
           THEN /\ transactions' = Append(transactions,
                       formTransaction(currentUser, existingStock.id, data))
                /\ result' = [op |-> "onSubmit", userId |-> currentUser,
                              ticker |-> data.ticker, type |-> data.type,
                              stored |-> TRUE]
                /\ UNCHANGED stocks
           ELSE IF outcome = "rejects"
           THEN /\ result' = [op |-> "onSubmit", userId |-> currentUser,
                              ticker |-> data.ticker, type |-> data.type,
                              stored |-> FALSE]
                /\ UNCHANGED <<stocks, transactions>>
           ELSE /\ stocks' = Append(stocks,
                       [id |-> Len(stocks) + 1, ticker |-> data.ticker,
                        currency |-> data.currency, userId |-> NoUser])
                /\ transactions' = Append(transactions,
                       formTransaction(currentUser, Len(stocks) + 1, data))
                /\ result' = [op |-> "onSubmit", userId |-> currentUser,
                              ticker |-> data.ticker, type |-> data.type,
                              stored |-> TRUE]
    /\ UNCHANGED <<currencies, settings, page, trip, isPKRAdded, calls, perm>>

NextForm ==
    \/ \E u \in Users, data \in FormInputs, o \in AddStockOutcomes :
           OnSubmit(u, data, o)
    \/ \E u \in Users : GetPortfolioSummary(u)
    \/ \E u \in Users : GetProfitLossReport(u, 1, 4)

\* transactions recorded through the form, then read by the engine
SpecForm == InitEngine /\ [][NextForm]_vars

\* ------------------------------------------------------------ Reports page
\* values.reduce((sum, v) => sum + v, 0) over the values of an object
RECURSIVE reduceSum(_)
reduceSum(obj) ==
    IF DOMAIN obj = {} THEN Zero
    ELSE LET c == CHOOSE x \in DOMAIN obj : TRUE
         IN  RAdd(obj[c], reduceSum([y \in DOMAIN obj \ {c} |-> obj[y]]))

\* plReport.stocks.map(item => ...) of loadReportData
convertedStocks(stockEntries) ==
    [k \in DOMAIN stockEntries |->
        LET item == stockEntries[k]
            rate == conversionRate(item.stock.currency)
        IN  [stock |-> item.stock,
             profit |-> RMul(item.profit, rate),
             loss |-> RMul(item.loss, rate),
             net |-> RMul(item.net, rate),
             originalCurrency |-> item.stock.currency]]

\* day.currencies || {}: the per-currency figures of a daily entry, the
\* empty object when the entry has no such field
currenciesOf(day) ==
    IF "currencies" \in DOMAIN day THEN day.currencies ELSE << >>

\* the body of plReport.daily.map(day => ...): the per-currency figures
\* converted, then summed into profit, loss and net over the spread day
convertedDay(day) ==
    LET convertedEntries ==
            [c \in DOMAIN currenciesOf(day) |->
                [profit |-> RMul(currenciesOf(day)[c].profit, conversionRate(c)),
                 loss |-> RMul(currenciesOf(day)[c].loss, conversionRate(c))]]
    IN  [date |-> day.date,
         currencies |-> convertedEntries,
         profit |-> reduceSum([c \in DOMAIN convertedEntries |->
                                  convertedEntries[c].profit]),
         loss |-> reduceSum([c \in DOMAIN convertedEntries |->
                                convertedEntries[c].loss]),
         net |-> reduceSum([c \in DOMAIN convertedEntries |->
                               RSub(convertedEntries[c].profit,
                                    convertedEntries[c].loss)])]

\* the loadReportData effect of the Reports page over the range the report
\* type gives; without rates loaded it returns at once
LoadReportData(userId, start, end) ==
    /\ converted' =
           IF DOMAIN exchangeRates = {} THEN converted
           ELSE LET plReport == getProfitLossReport(userId, start, end)
                    shown == convertedStocks(plReport.stocks)
                IN  [op |-> "loadReportData", userId |-> userId,
                     start |-> start, end |-> end,
                     report |-> plReport,
                     stocks |-> shown,
                     daily |-> [k \in DOMAIN plReport.daily |->
                                   convertedDay(plReport.daily[k])],
                     totalProfit |-> reduceSum([k \in DOMAIN shown |-> shown[k].profit]),
                     totalLoss |-> reduceSum([k \in DOMAIN shown |-> shown[k].loss])]
    /\ UNCHANGED <<stocks, transactions, currencies, settings, result,
                   pageCurrencies, exchangeRates, defaultCurrency, trip,
                   isPKRAdded, calls, perm>>

NextReportsPage ==
    \/ InitializeDatabase
    \/ \E c \in NewCodes, r \in NewRates, a \in ApiRates :
           HandleAddCurrency(setNewCode(c), r, a)
    \/ \E u \in LoggedIn, c \in OfferedCodes : HandleSaveSettings(u, c, FALSE)
    \/ \E u \in LoggedIn : LoadCurrencies(u)
    \/ \E u \in LoggedIn, rg \in Ranges : LoadReportData(u, rg[1], rg[2])

\* the Reports page over the recorded ledger, with the settings pages
SpecReportsPage == InitCurrency /\ [][NextReportsPage]_vars

\* ------------------------------------------------------------ storage permissions
\* the publicStorage states the Filesystem plugin reports
Statuses == {"granted", "denied", "prompt"}

\* what an awaited plugin call can do: resolve with a status, or reject
Outcomes == Statuses \cup {"throws"}

\* return value: the invocation ends
returns(p, value) == [p EXCEPT !.pc = "returned", !.value = value]

\* the catch block: return true
caught(p) == [p EXCEPT !.pc = "returned", !.value = TRUE, !.threw = TRUE]

\* if (checkResult.publicStorage !== 'granted') { ... } and the return after
\* the block
afterCheck(p, status) ==
    IF status # "granted"
    THEN [p EXCEPT !.observed = Append(@, status), !.pc = "getToast"]
    ELSE returns([p EXCEPT !.observed = Append(@, status)], status = "granted")

\* mutant: a fourth request follows a third that was not granted
afterRequest_fourth(p, status) ==
    LET q == [p EXCEPT !.observed = Append(@, status), !.requests = @ + 1]
    IN  IF status = "granted" THEN returns(q, TRUE)
        ELSE IF q.attempt = 4 THEN returns(q, FALSE)
        ELSE [q EXCEPT !.attempt = @ + 1,
                       !.pc = IF q.toast THEN "toast" ELSE "delay"]

\* the nested tests of requestResult, secondAttempt and finalAttempt: a
\* granted result returns true, a third result not granted returns false,
\* any other goes on to the next attempt
afterRequest(p, status) ==
    LET q == [p EXCEPT !.observed = Append(@, status), !.requests = @ + 1]
    IN  IF status = "granted" THEN returns(q, status = "granted")
        ELSE IF q.attempt = 3 THEN returns(q, FALSE)
        ELSE [q EXCEPT !.attempt = @ + 1,
                       !.pc = IF q.toast THEN "toast" ELSE "delay"]

\* ensureStoragePermissions() is called: off native Android it returns true
\* at once
Invoke(native) ==
    /\ perm.pc \in {"idle", "returned"}
    /\ perm' = IF ~native
               THEN returns([NotInvoked EXCEPT !.native = native], TRUE)
               ELSE [NotInvoked EXCEPT !.native = native, !.pc = "getFilesystem"]
    /\ UNCHANGED <<stocks, transactions, currencies, settings, result, page, trip,
                   isPKRAdded, calls>>

\* await getFilesystem(): the plugin, or null when its import fails
GetFilesystem(loaded) ==
    /\ perm.pc = "getFilesystem"
    /\ perm' = IF ~loaded THEN returns(perm, FALSE)
               ELSE [perm EXCEPT !.pc = "checkPermissions"]
    /\ UNCHANGED <<stocks, transactions, currencies, settings, result, page, trip,
                   isPKRAdded, calls>>

\* await Filesystem.checkPermissions()
CheckPermissions(outcome) ==
    /\ perm.pc = "checkPermissions"
    /\ perm' = IF outcome = "throws" THEN caught(perm)
               ELSE afterCheck(perm, outcome)
    /\ UNCHANGED <<stocks, transactions, currencies, settings, result, page, trip,
                   isPKRAdded, calls>>

\* await getToast(): the plugin, or null when its import fails
GetToast(loaded) ==
    /\ perm.pc = "getToast"
    /\ perm' = [perm EXCEPT !.toast = loaded, !.attempt = 1,
                            !.pc = IF loaded THEN "toast" ELSE "requestPermissions"]
    /\ UNCHANGED <<stocks, transactions, currencies, settings, result, page, trip,
                   isPKRAdded, calls>>

\* await Toast.show(...) before an attempt; the second and the final
\* attempt wait for a delay after it
ToastShow(shown) ==
    /\ perm.pc = "toast"
    /\ perm' = IF ~shown THEN caught(perm)
               ELSE [perm EXCEPT !.pc = IF perm.attempt = 1
                                        THEN "requestPermissions" ELSE "delay"]
    /\ UNCHANGED <<stocks, transactions, currencies, settings, result, page, trip,
                   isPKRAdded, calls>>

\* await new Promise(resolve => setTimeout(resolve, ...))
Delay ==
    /\ perm.pc = "delay"
    /\ perm' = [perm EXCEPT !.pc = "requestPermissions"]
    /\ UNCHANGED <<stocks, transactions, currencies, settings, result, page, trip,
                   isPKRAdded, calls>>

\* await Filesystem.requestPermissions()
RequestPermissions(outcome) ==
    /\ perm.pc = "requestPermissions"
    /\ perm' = IF outcome = "throws"
               THEN caught([perm EXCEPT !.requests = @ + 1])
               ELSE afterRequest(perm, outcome)
    /\ UNCHANGED <<stocks, transactions, currencies, settings, result, page, trip,
                   isPKRAdded, calls>>

NextPermissions ==
    \/ \E native \in BOOLEAN : Invoke(native)
    \/ \E loaded \in BOOLEAN : GetFilesystem(loaded)
    \/ \E outcome \in Outcomes : CheckPermissions(outcome)
    \/ \E loaded \in BOOLEAN : GetToast(loaded)
    \/ \E shown \in BOOLEAN : ToastShow(shown)
    \/ Delay
    \/ \E outcome \in Outcomes : RequestPermissions(outcome)

\* invocations of ensureStoragePermissions, one after the other
SpecPermissions == InitEngine /\ [][NextPermissions]_vars

\* ------------------------------------------------------------ properties
\* the statement of the weighted-average method, one stock at a time
Holding0 ==
    [shares |-> Zero, averageCost |-> Zero, totalCost |-> Zero,
     profitLoss |-> Zero]

\* a buy of q at p: totalCost += q*p, shares += q, averageCost = totalCost/shares
FoldBuy(h, q, p) ==
    LET totalCost == RAdd(h.totalCost, RMul(q, p))
        shares == RAdd(h.shares, q)
    IN  [shares |-> shares, averageCost |-> RDiv(totalCost, shares),
         totalCost |-> totalCost, profitLoss |-> h.profitLoss]

\* a sell of q at p: profitLoss += q*p - averageCost*q, shares -= q, then
\* totalCost = averageCost*shares if shares > 0 else totalCost = averageCost = 0
FoldSell(h, q, p) ==
    LET profitLoss == RAdd(h.profitLoss, RSub(RMul(q, p), RMul(h.averageCost, q)))
        shares == RSub(h.shares, q)
    IN  IF RGt0(shares)
        THEN [shares |-> shares, averageCost |-> h.averageCost,
              totalCost |-> RMul(h.averageCost, shares),
              profitLoss |-> profitLoss]
        ELSE [shares |-> shares, averageCost |-> Zero, totalCost |-> Zero,
              profitLoss |-> profitLoss]

Front(seq) == SubSeq(seq, 1, Len(seq) - 1)

Last(seq) == seq[Len(seq)]

\* the left fold of the steps over a stock's transactions
RECURSIVE Fold(_)
Fold(txs) ==
    IF txs = << >> THEN Holding0
    ELSE LET t == Last(txs)
         IN  IF t.type = "buy"
             THEN FoldBuy(Fold(Front(txs)), R(t.shares), R(t.price))
             ELSE FoldSell(Fold(Front(txs)), R(t.shares), R(t.price))

\* the figures of a returned holding
Figures(item) ==
    [shares |-> item.shares, averageCost |-> item.averageCost,
     totalCost |-> item.totalCost, profitLoss |-> item.profitLoss]

\* the transactions of a user on a stock, in insertion order
TxsOfStock(userId, stockId) ==
    SelectSeq(transactions,
              LAMBDA t : t.userId = userId /\ t.stockId = stockId)

\* a transaction list as (type, shares, price) triples
Shape(txs) == [k \in DOMAIN txs |-> <<txs[k].type, txs[k].shares, txs[k].price>>]

ExampleShape == << <<"buy", 10, 100>>, <<"buy", 10, 120>>, <<"sell", 15, 150>> >>

ExampleFigures ==
    [shares |-> R(5), averageCost |-> R(110), totalCost |-> R(550),
     profitLoss |-> R(600)]

\* the last call was getPortfolioSummary
SummaryReturned == result.op = "getPortfolioSummary"

\* the holdings the last getPortfolioSummary returned
Holdings == {result.value[k] : k \in DOMAIN result.value}

\* the transactions behind a returned holding
TxsBehind(item) == TxsOfStock(result.userId, item.stock.id)

\* C1: every holding getPortfolioSummary returns is the left fold of the buy
\* and sell steps over that stock's transactions in insertion order (not date
\* order); buy 10@100, buy 10@120, sell 15@150 gives shares 5, averageCost
\* 110, totalCost 550, profitLoss 600.
C1_HoldingIsFoldInInsertionOrder ==
    SummaryReturned =>
        \A item \in Holdings :
            /\ Figures(item) = Fold(TxsBehind(item))
            /\ Shape(TxsBehind(item)) = ExampleShape
                   => Figures(item) = ExampleFigures

\* C1 witness: the example was recorded and summarised
C1_Witness ==
    /\ SummaryReturned
    /\ \E item \in Holdings :
           /\ Shape(TxsBehind(item)) = ExampleShape
           /\ Figures(item) = ExampleFigures

\* shares bought minus shares sold, as plain integers
RECURSIVE NetShares(_)
NetShares(txs) ==
    IF txs = << >> THEN 0
    ELSE NetShares(Front(txs))
         + (IF Last(txs).type = "buy" THEN Last(txs).shares ELSE -Last(txs).shares)

\* the list ends with a buy
EndsWithBuy(txs) == txs # << >> /\ Last(txs).type = "buy"

\* the list ends with a sell
EndsWithSell(txs) == txs # << >> /\ Last(txs).type = "sell"

\* C3: after every buy step the holding's shares are > 0, so averageCost =
\* totalCost / shares never divides by zero, whatever buys and sells came
\* before (an earlier sell may have exceeded the held shares).
C3_SharesPositiveAfterBuy ==
    SummaryReturned =>
        \A item \in Holdings :
            EndsWithBuy(TxsBehind(item)) =>
                RGt0(item.shares) /\ IsFinite(item.averageCost)

\* every transaction of the list is a buy
OnlyBuys(txs) == \A k \in DOMAIN txs : txs[k].type = "buy"

\* C4 (P3): after buys only, averageCost == totalCost / shares, equivalently
\* averageCost * shares == totalCost.
C4_WeightedAverageAfterBuys ==
    SummaryReturned =>
        \A item \in Holdings :
            OnlyBuys(TxsBehind(item)) =>
                /\ item.averageCost = RDiv(item.totalCost, item.shares)
                /\ RMul(item.averageCost, item.shares) = item.totalCost

\* C4 witness: a holding built from two buys at different prices
C4_Witness ==
    /\ SummaryReturned
    /\ \E item \in Holdings :
           /\ OnlyBuys(TxsBehind(item))
           /\ Len(TxsBehind(item)) >= 2
           /\ TxsBehind(item)[1].price # TxsBehind(item)[2].price

\* buys, then one sell of exactly the shares bought
BuysThenExactSell(txs) ==
    /\ Len(txs) >= 2
    /\ OnlyBuys(Front(txs))
    /\ Last(txs).type = "sell"
    /\ Last(txs).shares = NetShares(Front(txs))

\* C5 (P4): buys followed by one sell of exactly the shares bought leave
\* shares == 0, totalCost == 0 and averageCost == 0.
C5_ZeroSharesReset ==
    SummaryReturned =>
        \A item \in Holdings :
            BuysThenExactSell(TxsBehind(item)) =>
                /\ item.shares = Zero
                /\ item.totalCost = Zero
                /\ item.averageCost = Zero

\* C5 witness: two buys and a sell of their total were summarised
C5_Witness ==
    /\ SummaryReturned
    /\ \E item \in Holdings :
           /\ BuysThenExactSell(TxsBehind(item))
           /\ Len(TxsBehind(item)) >= 3

\* the last transaction is a sell of more shares than were held before it
EndsWithOversell(txs) ==
    /\ EndsWithSell(txs)
    /\ Last(txs).shares > NetShares(Front(txs))

\* C6: a sell that exceeds the shares held is not rejected: the call
\* returns, the sell is applied (shares and profitLoss move by it) and the
\* holding's shares become negative.
C6_OversellApplied ==
    SummaryReturned =>
        \A item \in Holdings :
            LET txs == TxsBehind(item)
                before == Fold(Front(txs))
                q == R(Last(txs).shares)
                p == R(Last(txs).price)
            IN  EndsWithOversell(txs) =>
                    /\ item.shares = R(NetShares(Front(txs)) - Last(txs).shares)
                    /\ RGt0(RNeg(item.shares))
                    /\ item.profitLoss =
                           RAdd(before.profitLoss,
                                RSub(RMul(q, p), RMul(before.averageCost, q)))

\* C6 witness: a buy then a larger sell were summarised
C6_Witness ==
    /\ SummaryReturned
    /\ \E item \in Holdings :
           /\ EndsWithOversell(TxsBehind(item))
           /\ NetShares(Front(TxsBehind(item))) > 0

\* C7 as stated: when a sell leaves shares < 0, averageCost keeps the value
\* it had before that sell.
C7_AverageCostKeptOnOversell ==
    SummaryReturned =>
        \A item \in Holdings :
            EndsWithOversell(TxsBehind(item)) =>
                item.averageCost = Fold(Front(TxsBehind(item))).averageCost

\* C7 amended: when a sell leaves shares < 0, averageCost is reset to 0
\* together with totalCost, as when the shares reach exactly 0.
C7_AverageCostResetOnOversell ==
    SummaryReturned =>
        \A item \in Holdings :
            EndsWithOversell(TxsBehind(item)) =>
                item.averageCost = Zero /\ item.totalCost = Zero

\* C7 witness: the holding had a non-zero average cost before the oversell
C7_Witness ==
    /\ SummaryReturned
    /\ \E item \in Holdings :
           /\ EndsWithOversell(TxsBehind(item))
           /\ Fold(Front(TxsBehind(item))).averageCost # Zero

\* the last call was calculateProfitLoss on a sell
SellCosted == result.op = "calculateProfitLoss" /\ result.tx.type = "sell"

\* the buys of the same stock dated before tx, in insertion order
PriorBuys(tx) ==
    SelectSeq(transactions,
              LAMBDA t : /\ t.stockId = tx.stockId
                         /\ t.type = "buy"
                         /\ t.date < tx.date)

\* lot j is consumed before lot k: it is older (of two lots of one date,
\* the one stored first)
ConsumedBefore(lots, j, k) ==
    \/ lots[j].date < lots[k].date
    \/ lots[j].date = lots[k].date /\ j < k

\* the sum of f[k] over the indices k of ks
RECURSIVE SumOver(_, _)
SumOver(f, ks) ==
    IF ks = {} THEN 0
    ELSE LET k == CHOOSE x \in ks : TRUE
         IN  f[k] + SumOver(f, ks \ {k})

Min(a, b) == IF a < b THEN a ELSE b

Max(a, b) == IF a > b THEN a ELSE b

\* the shares lot k contributes to a sale of q shares
SharesUsed(lots, k, q) ==
    LET before == SumOver([j \in DOMAIN lots |-> lots[j].shares],
                          {j \in DOMAIN lots : ConsumedBefore(lots, j, k)})
    IN  Max(0, Min(q - before, lots[k].shares))

\* the FIFO cost basis of a sale of q shares
FifoCostBasis(lots, q) ==
    SumOver([k \in DOMAIN lots |-> SharesUsed(lots, k, q) * lots[k].price],
            DOMAIN lots)

\* lots as (shares, price, date) triples
LotSet(lots) == {<<lots[k].shares, lots[k].price, lots[k].date>> : k \in DOMAIN lots}

\* the lots 10@100 on day 1 and 10@120 on day 2, sold 15@150 on day 3
FifoExample(tx) ==
    /\ <<tx.shares, tx.price, tx.date>> = <<15, 150, 3>>
    /\ Len(PriorBuys(tx)) = 2
    /\ LotSet(PriorBuys(tx)) = {<<10, 100, 1>>, <<10, 120, 2>>}

\* C2: calculateProfitLoss of a sell consumes the prior buys of the stock
\* oldest first, min(remaining needed, lot.shares) * lot.price each, until
\* tx.shares are covered, and returns tx.shares*tx.price - costBasis; lots
\* 10@100 day 1, 10@120 day 2 and a sell 15@150 day 3 give cost basis 1600
\* and 650.
C2_StrictFifo ==
    SellCosted =>
        LET tx == result.tx
            lots == PriorBuys(tx)
        IN  /\ result.value
                   = R(tx.shares * tx.price - FifoCostBasis(lots, tx.shares))
            /\ FifoExample(tx) =>
                   /\ FifoCostBasis(lots, tx.shares) = 1600
                   /\ result.value = R(650)

\* C2 witness: the example, its newer lot stored before its older lot
C2_Witness ==
    /\ SellCosted
    /\ FifoExample(result.tx)
    /\ PriorBuys(result.tx)[1].date > PriorBuys(result.tx)[2].date
    /\ result.value = R(650)

\* the page rendered a convertCurrency result
Converted == converted.op = "convertCurrency"

\* the page rendered a converted portfolio
PortfolioConverted == converted.op = "loadPortfolio"

\* the money figures of a holding
Money(item) == <<item.totalCost, item.profitLoss, item.averageCost>>

\* the holding the engine returns at position k of the converted portfolio
EngineItem(k) == getPortfolioSummary(converted.userId)[k]

\* C8 (P1): converting from a currency to the same currency returns exactly
\* the amount, whether the code is in the rate table or not.
C8_NoOpConversion ==
    /\ Converted /\ converted.fromCurrency = defaultCurrency
           => converted.value = converted.amount
    /\ PortfolioConverted =>
           \A k \in DOMAIN converted.value :
               converted.value[k].originalCurrency = defaultCurrency
                   => Money(converted.value[k]) = Money(EngineItem(k))

\* C8 witness: a non-zero amount converted from the display currency to
\* itself, its rate in the table and not 1
C8_Witness ==
    /\ Converted
    /\ converted.fromCurrency = defaultCurrency
    /\ converted.amount # Zero
    /\ defaultCurrency \in DOMAIN exchangeRates
    /\ exchangeRates[defaultCurrency] # One

\* the loaded Currency records have one of this code
HasRecord(code) ==
    \E k \in DOMAIN pageCurrencies : pageCurrencies[k].code = code

\* the rate the loaded Currency records give a code (of several records of
\* one code, the last)
RecordRate(code) ==
    LET ks == {k \in DOMAIN pageCurrencies : pageCurrencies[k].code = code}
        last == CHOOSE k \in ks : \A j \in ks : j <= k
    IN  pageCurrencies[last].exchangeRate

\* amount * (to / from) for finite numbers, from # 0, by cross-multiplication
Scaled(amount, to, from) ==
    Rat(amount.n * to.n * from.d, amount.d * to.d * from.n)

\* C9: for distinct codes both in the rate table, the conversion returns
\* amount * (rate[toCode] / rate[fromCode]), rate being the code ->
\* exchangeRate mapping of the Currency records the page loaded.
C9_ConversionByRateRatio ==
    /\ DOMAIN exchangeRates = {pageCurrencies[k].code : k \in DOMAIN pageCurrencies}
    /\ \A code \in DOMAIN exchangeRates : exchangeRates[code] = RecordRate(code)
    /\ Converted /\ converted.fromCurrency # defaultCurrency
         /\ HasRecord(converted.fromCurrency) /\ HasRecord(defaultCurrency)
           => converted.value = Scaled(converted.amount,
                                       RecordRate(defaultCurrency),
                                       RecordRate(converted.fromCurrency))
    /\ PortfolioConverted =>
           \A k \in DOMAIN converted.value :
               LET cur == converted.value[k].originalCurrency
               IN  cur # defaultCurrency /\ HasRecord(cur) /\ HasRecord(defaultCurrency)
                       => Money(converted.value[k]) =
                              [i \in 1..3 |-> Scaled(Money(EngineItem(k))[i],
                                                     RecordRate(defaultCurrency),
                                                     RecordRate(cur))]

\* C9 witness: a non-zero amount converted between two currencies whose
\* rates are not 1
C9_Witness ==
    /\ Converted
    /\ converted.amount # Zero
    /\ converted.fromCurrency # defaultCurrency
    /\ HasRecord(converted.fromCurrency) /\ HasRecord(defaultCurrency)
    /\ RecordRate(converted.fromCurrency) # One
    /\ RecordRate(defaultCurrency) # One

\* the rate of a code with 1 for a code the table lacks
RateOrOne(code) == IF HasRecord(code) THEN RecordRate(code) ELSE One

\* C10: when a code is absent from the rate table the conversion does not
\* fail: the result is amount * (rateTo / rateFrom) with 1 in place of each
\* missing rate.
C10_MissingRateIsOne ==
    /\ Converted /\ converted.fromCurrency # defaultCurrency
         /\ ~(HasRecord(converted.fromCurrency) /\ HasRecord(defaultCurrency))
           => /\ IsFinite(converted.value)
              /\ converted.value = Scaled(converted.amount,
                                          RateOrOne(defaultCurrency),
                                          RateOrOne(converted.fromCurrency))
    /\ PortfolioConverted =>
           \A k \in DOMAIN converted.value :
               LET cur == converted.value[k].originalCurrency
               IN  ~(HasRecord(cur) /\ HasRecord(defaultCurrency))
                       => Money(converted.value[k]) =
                              [i \in 1..3 |-> Scaled(Money(EngineItem(k))[i],
                                                     RateOrOne(defaultCurrency),
                                                     RateOrOne(cur))]

\* C10 witness: a non-zero amount converted from a code the table lacks to
\* a display currency whose rate is in the table and not 1
C10_Witness ==
    /\ Converted
    /\ converted.amount # Zero
    /\ ~HasRecord(converted.fromCurrency)
    /\ HasRecord(defaultCurrency)
    /\ RecordRate(defaultCurrency) # One

\* ------------------------------------------------------------ C11
\* the round trip is complete: the figure was shown there and back
TripDone == trip # None /\ trip.leg = 2

\* code has a positive finite rate in the lookup object rates
PositiveRate(rates, code) ==
    /\ code \in DOMAIN rates
    /\ IsFinite(rates[code])
    /\ RGt0(rates[code])

\* both legs used one rate table, in which both currencies have a
\* positive rate
OneTable ==
    /\ trip.rates = trip.backRates
    /\ PositiveRate(trip.rates, trip.from)
    /\ PositiveRate(trip.rates, trip.to)

\* C11: an amount converted from X to Y and then, by the same rate table in
\* which X and Y have positive rates, from Y back to X is the amount itself
\* (exactly, in exact arithmetic).
C11_RoundTrip ==
    (TripDone /\ OneTable) => trip.back = trip.amount

\* an amount of 550 EUR was shown in another currency, by a true conversion,
\* and shown back
C11_Witness ==
    /\ TripDone
    /\ OneTable
    /\ trip.amount = R(550)
    /\ trip.from = "EUR"
    /\ trip.to # "EUR"
    /\ trip.value # trip.amount
    /\ trip.back = R(550)

\* ------------------------------------------------------------ C12
\* the last call returned a profit-and-loss report
ReportReturned == result.op = "getProfitLossReport"

\* the stored transactions of the report's user dated within its range
InReport ==
    {k \in DOMAIN transactions :
        /\ transactions[k].userId = result.userId
        /\ result.startDate <= transactions[k].date
        /\ transactions[k].date <= result.endDate}

\* the ids of the stocks of a user
StockIdsOf(userId) ==
    {stocks[k].id : k \in {j \in DOMAIN stocks : stocks[j].userId = userId}}

\* an entry whose three figures are zero
AllZero(entry) ==
    entry.profit = Zero /\ entry.loss = Zero /\ entry.net = Zero

\* C12: when the user's transactions in the report range are all buys, the
\* daily list is empty and the stocks list holds one entry per stock of the
\* user, each with profit, loss and net 0.
C12_AllBuysEmptyReport ==
    (ReportReturned /\ \A k \in InReport : transactions[k].type = "buy") =>
        LET list == result.value.stocks
        IN  /\ result.value.daily = << >>
            /\ Len(list) = Cardinality(StockIdsOf(result.userId))
            /\ {list[k].stock.id : k \in DOMAIN list} = StockIdsOf(result.userId)
            /\ \A k \in DOMAIN list : AllZero(list[k])

\* user 1's report over a range that holds a buy of theirs and no sell,
\* while a sell of theirs lies outside the range
C12_Witness ==
    /\ ReportReturned
    /\ result.userId = 1
    /\ InReport # {}
    /\ \A k \in InReport : transactions[k].type = "buy"
    /\ \E k \in DOMAIN transactions :
           /\ transactions[k].userId = 1
           /\ transactions[k].type = "sell"
           /\ k \notin InReport
    /\ Len(result.value.stocks) = 2

\* ------------------------------------------------------------ C13
\* C13: in every report the daily list is ascending by date string with no
\* calendar day twice, and the stocks list is non-increasing by net.
C13_ReportSorted ==
    ReportReturned =>
        LET daily == result.value.daily
            list == result.value.stocks
        IN  /\ \A i, j \in DOMAIN daily : i < j => daily[i].date < daily[j].date
            /\ \A i, j \in DOMAIN list :
                   i < j => ~RGt(list[j].net, list[i].net)

\* a report of two days whose sells were stored with the later day first,
\* and whose stock 2 made more than stock 1
C13_Witness ==
    /\ ReportReturned
    /\ Len(result.value.daily) >= 2
    /\ \E k, l \in InReport :
           /\ k < l
           /\ transactions[k].type = "sell"
           /\ transactions[l].type = "sell"
           /\ toISODate(transactions[k].date) > toISODate(transactions[l].date)
    /\ Len(result.value.stocks) = 2
    /\ result.value.stocks[1].stock.id = 2
    /\ RGt(result.value.stocks[1].net, result.value.stocks[2].net)

\* ------------------------------------------------------------ C14
\* the realized value of the stored sell number k
Realized(k) ==
    calculateProfitLoss(transactions[k], previousTxsOf(transactions[k]))

\* the sum of f[k] over the indices k of ks, of numbers
RECURSIVE RSumOver(_, _)
RSumOver(f, ks) ==
    IF ks = {} THEN Zero
    ELSE LET k == CHOOSE x \in ks : TRUE
         IN  RAdd(f[k], RSumOver(f, ks \ {k}))

\* the sells of the report: of its user, within its range
SellsInReport == {k \in InReport : transactions[k].type = "sell"}

\* entry holds the accumulation of the sells ks: the gains in profit, the
\* magnitudes of the others in loss, all of them in net
Accumulates(entry, ks) ==
    LET v == [k \in ks |-> Realized(k)]
        gains == {k \in ks : RGt0(v[k])}
    IN  /\ entry.profit = RSumOver(v, gains)
        /\ entry.loss = RSumOver([k \in ks |-> RAbs(v[k])], ks \ gains)
        /\ entry.net = RSumOver(v, ks)

\* profit >= 0, loss >= 0 and net = profit - loss
Balanced(entry) ==
    /\ ~RGt(Zero, entry.profit)
    /\ ~RGt(Zero, entry.loss)
    /\ IsFinite(entry.profit)
    /\ IsFinite(entry.loss)
    /\ entry.net = RSub(entry.profit, entry.loss)

\* C14: each sell's realized value v goes to its day entry and to its stock
\* entry, as v to profit when v > 0, as |v| to loss when v <= 0, and as v to
\* net; so every entry has profit >= 0, loss >= 0 and net = profit - loss.
C14_Accumulation ==
    ReportReturned =>
        LET daily == result.value.daily
            list == result.value.stocks
        IN  /\ \A i \in DOMAIN daily :
                   /\ Accumulates(daily[i],
                          {k \in SellsInReport :
                              toISODate(transactions[k].date) = daily[i].date})
                   /\ Balanced(daily[i])
            /\ \A i \in DOMAIN list :
                   /\ Accumulates(list[i],
                          {k \in SellsInReport :
                              transactions[k].stockId = list[i].stock.id})
                   /\ Balanced(list[i])

\* a day and a stock that hold both a gain and a loss
C14_Witness ==
    /\ ReportReturned
    /\ \E i \in DOMAIN result.value.daily :
           /\ RGt0(result.value.daily[i].profit)
           /\ RGt0(result.value.daily[i].loss)
    /\ \E i \in DOMAIN result.value.stocks :
           /\ RGt0(result.value.stocks[i].profit)
           /\ RGt0(result.value.stocks[i].loss)
           /\ result.value.stocks[i].net
                  = RSub(result.value.stocks[i].profit, result.value.stocks[i].loss)

\* ------------------------------------------------------------ C15
\* the shares held by lots, and what was paid for them
SharesOf(lots) == SumOver([k \in DOMAIN lots |-> lots[k].shares], DOMAIN lots)

CostOf(lots) ==
    SumOver([k \in DOMAIN lots |-> lots[k].shares * lots[k].price], DOMAIN lots)

\* the sell costed asks for more shares than the prior buys of its stock hold
Uncovered == SellCosted /\ SharesOf(PriorBuys(result.tx)) < result.tx.shares

\* C15: when the prior buy lots hold fewer shares than the sell's quantity,
\* calculateProfitLoss returns a number: tx.shares*tx.price minus the full
\* cost of all prior buy lots, the uncovered shares costing nothing.
C15_PartialCostBasis ==
    Uncovered =>
        /\ IsFinite(result.value)
        /\ result.value = R(result.tx.shares * result.tx.price
                               - CostOf(PriorBuys(result.tx)))

\* 15 shares are sold at 150 with one lot of 10 at 100 behind them
C15_Witness ==
    /\ Uncovered
    /\ result.tx.shares = 15
    /\ LotSet(PriorBuys(result.tx)) = {<<10, 100, 1>>}
    /\ Len(PriorBuys(result.tx)) = 1
    /\ result.value = R(1250)

\* ------------------------------------------------------------ C16
\* the stored sells of the report's user
SellsOfUser ==
    {k \in DOMAIN transactions :
        /\ transactions[k].userId = result.userId
        /\ transactions[k].type = "sell"}

\* those dated from startDate to endDate, the two bounds included
Taken ==
    {k \in SellsOfUser :
        /\ result.startDate <= transactions[k].date
        /\ transactions[k].date <= result.endDate}

\* C16: the report takes into account exactly the user's transactions dated
\* d with start <= d <= end: the days reported are the days of the user's
\* sells of that closed range, and a day's net is the sum of those sells; a
\* sell dated at start or at end is counted, one dated outside is not.
C16_InclusiveRange ==
    ReportReturned =>
        LET daily == result.value.daily
        IN  /\ {daily[i].date : i \in DOMAIN daily}
                   = {toISODate(transactions[k].date) : k \in Taken}
            /\ \A i \in DOMAIN daily :
                   daily[i].net =
                       RSumOver([k \in Taken |-> Realized(k)],
                                {k \in Taken :
                                    toISODate(transactions[k].date) = daily[i].date})

\* a report over a range of two instants, with a sell at its start, a sell
\* at its end and a sell after its end: the first two are the one day
\* reported
C16_Witness ==
    /\ ReportReturned
    /\ result.startDate < result.endDate
    /\ \E k, l, m \in SellsOfUser :
           /\ transactions[k].date = result.startDate
           /\ transactions[l].date = result.endDate
           /\ transactions[m].date > result.endDate
           /\ Len(result.value.daily) = 1
           /\ result.value.daily[1].net = RAdd(Realized(k), Realized(l))
           /\ RGt0(Realized(m))

\* ------------------------------------------------------------ C17
\* what the stored sell number k makes over the buys of its stock dated
\* strictly before it, wherever the report's range starts
OverEarlierBuys(k) ==
    LET tx == transactions[k]
    IN  tx.shares * tx.price - FifoCostBasis(PriorBuys(tx), tx.shares)

\* C17: each sell of the report is costed against the transactions of its
\* stock dated strictly before it, those dated before the report's start
\* included; a buy of the sell's own date or of a later date is not consumed.
C17_LotsStrictlyEarlier ==
    ReportReturned =>
        LET daily == result.value.daily
            made == [k \in Taken |-> OverEarlierBuys(k)]
        IN  \A i \in DOMAIN daily :
                daily[i].net =
                    R(SumOver(made,
                              {k \in Taken :
                                  toISODate(transactions[k].date) = daily[i].date}))

\* the only sell of the report has behind it a buy dated before the report's
\* start and a buy of its own date: 10 sold at 90 over 10@100 lose 100
C17_Witness ==
    /\ ReportReturned
    /\ \E k \in Taken :
           /\ Taken = {k}
           /\ \E b, c \in DOMAIN transactions :
                  /\ transactions[b].type = "buy"
                  /\ transactions[c].type = "buy"
                  /\ transactions[b].stockId = transactions[k].stockId
                  /\ transactions[c].stockId = transactions[k].stockId
                  /\ transactions[b].date < result.startDate
                  /\ transactions[c].date = transactions[k].date
    /\ Len(result.value.daily) = 1
    /\ result.value.daily[1].net = R(-100)

\* ------------------------------------------------------------ C18
\* the stocks of the summary's user on which the user has a transaction
Traded ==
    {id \in StockIdsOf(result.userId) : TxsOfStock(result.userId, id) # << >>}

\* the user's transactions that refer to a stock that is not the user's
Foreign(userId) ==
    {k \in DOMAIN transactions :
        /\ transactions[k].userId = userId
        /\ transactions[k].stockId \notin StockIdsOf(userId)}

\* C18: getPortfolioSummary returns one holding for each stock of the user
\* on which the user has a transaction and none for any other stock; a
\* transaction on a stock that is not the user's is skipped, every holding
\* being the fold of the transactions of its own stock.
C18_OneHoldingPerTradedStock ==
    SummaryReturned =>
        /\ Len(result.value) = Cardinality(Traded)
        /\ {result.value[k].stock.id : k \in DOMAIN result.value} = Traded
        /\ \A item \in Holdings :
               /\ item.stock.userId = result.userId
               /\ Figures(item) = Fold(TxsBehind(item))

\* user 1 holds stock 1, has nothing on stock 2 and has recorded a
\* transaction on user 2's stock 3, which user 2 trades too
C18_Witness ==
    /\ SummaryReturned
    /\ result.userId = 1
    /\ Foreign(1) # {}
    /\ \E k \in DOMAIN transactions : transactions[k].userId = 2
    /\ Traded = {1}
    /\ Len(result.value) = 1
    /\ result.value[1].stock.id = 1

\* ------------------------------------------------------------ C19
\* the sum of the nets of a list of entries
NetOf(entries) ==
    RSumOver([i \in DOMAIN entries |-> entries[i].net], DOMAIN entries)

\* the sells of the report made on a stock of the report's user
TakenOnOwnStock ==
    {k \in Taken : transactions[k].stockId \in StockIdsOf(result.userId)}

\* C19: a sell whose stock is not among the user's stocks is skipped by the
\* report: it is in no daily entry and in no stock entry, so the nets of the
\* daily list and the nets of the stocks list have the same sum.
C19_MissingStockSkipped ==
    ReportReturned =>
        LET daily == result.value.daily
        IN  /\ NetOf(daily) = NetOf(result.value.stocks)
            /\ {daily[i].date : i \in DOMAIN daily}
                   = {toISODate(transactions[k].date) : k \in TakenOnOwnStock}

\* ------------------------------------------------------------ C20
\* the records of the store
Store == <<stocks, transactions, currencies, settings>>

\* the step returns from getPortfolioSummary or getProfitLossReport
EngineReturns ==
    /\ result' # result
    /\ result'.op \in {"getPortfolioSummary", "getProfitLossReport"}

\* the step of a write path: addTransaction stores one more record
TransactionAdded ==
    /\ Len(transactions') = Len(transactions) + 1
    /\ SubSeq(transactions', 1, Len(transactions)) = transactions
    /\ UNCHANGED <<stocks, currencies, settings>>

\* the step of the transaction list loader: records of its user that lack
\* a currency have the currency of their stock, and nothing else differs
Backfilled ==
    /\ result'.op = "loadTransactions"
    /\ UNCHANGED <<stocks, currencies, settings>>
    /\ Len(transactions') = Len(transactions)
    /\ \A k \in DOMAIN transactions :
           \/ transactions'[k] = transactions[k]
           \/ /\ transactions[k].userId = result'.userId
              /\ transactions[k].currency = ""
              /\ \E j \in DOMAIN stocks :
                     /\ stocks[j].id = transactions[k].stockId
                     /\ transactions'[k] =
                            [transactions[k] EXCEPT !.currency = stocks[j].currency]

\* the step of a page's settings load for a user with no Settings record:
\* the default record is stored, and nothing else differs
SettingsCreated ==
    /\ UNCHANGED <<stocks, transactions, currencies>>
    /\ \E u \in Users :
           /\ \A k \in DOMAIN settings : settings[k].userId # u
           /\ settings' = Append(settings,
                  [id |-> Len(settings) + 1, userId |-> u,
                   defaultCurrency |-> "USD", darkMode |-> FALSE])

\* C20 as stated: getPortfolioSummary and getProfitLossReport leave every
\* record as it was, and off the write path the only change to the store is
\* the loader's currency backfill.
C20_OnlyBackfillWrites ==
    [][ /\ EngineReturns => UNCHANGED Store
        /\ \/ TransactionAdded
           \/ UNCHANGED Store
           \/ Backfilled ]_vars

\* C20, amended: getPortfolioSummary and getProfitLossReport leave every
\* record as it was; off the write path the store changes by the loader's
\* currency backfill, which sets a missing transaction currency to its
\* stock's currency, and by the default Settings record that a page's
\* settings load creates for a user who has none.
C20_BackfillAndLazySettings ==
    [][ /\ EngineReturns => UNCHANGED Store
        /\ \/ TransactionAdded
           \/ UNCHANGED Store
           \/ Backfilled
           \/ SettingsCreated ]_vars

\* the loader has run for user 1: the sell stored without a currency now
\* has its stock's, the record stored in a currency of the user's choice
\* and user 2's record without a currency are as they were, and both engine
\* reads and the settings load have happened
C20_Witness ==
    /\ result.op = "loadTransactions"
    /\ result.userId = 1
    /\ Len(transactions) = 3
    /\ transactions[1] = [Tx(1, 2, "buy", <<5, 120, 2>>) EXCEPT !.currency = "USD"]
    /\ transactions[2] = Tx(1, 1, "sell", <<10, 150, 3>>)
    /\ transactions[3] = TxBare(2, 3, "buy", <<10, 100, 1>>)
    /\ Len(settings) = 1

\* ------------------------------------------------------------ C21
\* the buys of tx's stock dated before tx that tx's user owns
OwnPriorBuys(tx) ==
    SelectSeq(PriorBuys(tx), LAMBDA t : t.userId = tx.userId)

\* what the stored sell number k makes over its user's own earlier buys:
\* its value in the store that holds that user's records only
OverOwnBuys(k) ==
    LET tx == transactions[k]
    IN  tx.shares * tx.price - FifoCostBasis(OwnPriorBuys(tx), tx.shares)

\* C21: the engine never operates across users: what getPortfolioSummary(u)
\* and getProfitLossReport(u, start, end) return is what they return in the
\* store that agrees on u's records and holds no record of another user:
\* the holdings are folds of u's transactions and the sells are costed
\* against u's buys.
C21_NoCrossUserInfluence ==
    /\ SummaryReturned =>
           \A item \in Holdings :
               /\ item.stock.userId = result.userId
               /\ \A k \in DOMAIN TxsBehind(item) :
                      TxsBehind(item)[k].userId = result.userId
    /\ ReportReturned =>
           LET daily == result.value.daily
               made == [k \in Taken |-> OverOwnBuys(k)]
           IN  \A i \in DOMAIN daily :
                   daily[i].net =
                       R(SumOver(made,
                                 {k \in Taken :
                                     toISODate(transactions[k].date) = daily[i].date}))

\* ------------------------------------------------------------ C22
\* the step returns from getUserSettings
SettingsReturns ==
    /\ result' # result
    /\ result'.op = "getUserSettings"

\* the positions of the records of userId in a settings table
RecordsOf(table, userId) == {k \in DOMAIN table : table[k].userId = userId}

\* record is the first record of userId in table: what a call returns
\* without adding anything
FirstOf(table, userId, record) ==
    \E k \in RecordsOf(table, userId) :
        /\ table[k] = record
        /\ \A j \in RecordsOf(table, userId) : k <= j

\* C22: getUserSettings(userId) returns the stored Settings record of the
\* user when there is one, and writes nothing; when there is none it adds
\* one record with defaultCurrency 'USD' and darkMode false and returns it;
\* either way the record returned is the one a following call finds, so
\* that call returns the same record and adds nothing.
C22_GetOrCreateSettings ==
    [][ SettingsReturns =>
            LET u == result'.userId
            IN  /\ RecordsOf(settings, u) # {} =>
                       /\ settings' = settings
                       /\ FirstOf(settings, u, result'.value)
                /\ RecordsOf(settings, u) = {} =>
                       /\ Len(settings') = Len(settings) + 1
                       /\ SubSeq(settings', 1, Len(settings)) = settings
                       /\ settings'[Len(settings')] = result'.value
                       /\ result'.value.userId = u
                       /\ result'.value.defaultCurrency = "USD"
                       /\ result'.value.darkMode = FALSE
                /\ FirstOf(settings', u, result'.value)
                /\ UNCHANGED <<stocks, transactions, currencies>> ]_vars

\* user 2's first call has added their default record behind the record
\* user 1 saved with EUR and dark mode
C22_Witness ==
    /\ result.op = "getUserSettings"
    /\ result.userId = 2
    /\ Len(settings) = 2
    /\ settings[1].userId = 1
    /\ settings[1].defaultCurrency = "EUR"
    /\ settings[1].darkMode = TRUE
    /\ settings[2] = result.value
    /\ result.value.defaultCurrency = "USD"

\* ------------------------------------------------------------ C23
\* no two Stock records have the same owner and ticker
UniquePerUser(table) ==
    \A j, k \in DOMAIN table :
        (table[j].userId = table[k].userId /\ table[j].ticker = table[k].ticker)
            => j = k

\* the step returns from addStock
StockReturns ==
    /\ result' # result
    /\ result'.op = "addStock"

\* C23: after any sequence of addStock calls made one after another no two
\* Stock records share (userId, ticker); addStock for a (userId, ticker)
\* that is stored adds nothing and returns the id of the stored stock, and
\* otherwise adds the stock.
C23_TickerUniquePerUser ==
    [][ /\ UniquePerUser(stocks')
        /\ StockReturns =>
               LET asked == result'.stock
                   stored == {k \in DOMAIN stocks :
                                 /\ stocks[k].userId = asked.userId
                                 /\ stocks[k].ticker = asked.ticker}
               IN  /\ stored # {} =>
                          /\ stocks' = stocks
                          /\ \E k \in stored : result'.value = stocks[k].id
                   /\ stored = {} =>
                          /\ Len(stocks') = Len(stocks) + 1
                          /\ SubSeq(stocks', 1, Len(stocks)) = stocks
                          /\ stocks'[Len(stocks')].userId = asked.userId
                          /\ stocks'[Len(stocks')].ticker = asked.ticker
                          /\ stocks'[Len(stocks')].id = result'.value ]_vars

\* user 2 has added MSFT, which user 1 owns too, and then asked for AAPL
\* in EUR: the call returned their stock 3, still in USD
C23_Witness ==
    /\ result.op = "addStock"
    /\ result.stock = [ticker |-> "AAPL", currency |-> "EUR", userId |-> 2]
    /\ result.value = 3
    /\ stocks[3].currency = "USD"
    /\ Len(stocks) = 4
    /\ stocks[4].userId = 2
    /\ stocks[4].ticker = "MSFT"

\* ------------------------------------------------------------ C24
\* C24: after any sequence of initializeDatabase, add-currency and add-PKR
\* operations the Currencies store holds one record per currency code, an
\* add of a stored code in any letter case having been rejected, and every
\* stored exchangeRate is > 0.
C24_OneRecordPerCode ==
    /\ \A j, k \in DOMAIN currencies :
           currencies[j].code = currencies[k].code => j = k
    /\ \A k \in DOMAIN currencies :
           /\ IsFinite(currencies[k].exchangeRate)
           /\ RGt0(currencies[k].exchangeRate)

\* ------------------------------------------------------------ C25
\* no call for userId is in flight and one has returned
CallsReturned(userId) ==
    /\ \E c \in Callers :
           calls[c].pc = "returned" /\ calls[c].userId = userId
    /\ \A c \in Callers :
           calls[c].pc \in {"query", "add"} => calls[c].userId # userId

\* C25: Settings is a per-user singleton under interleaving: when the
\* getUserSettings calls for a user have returned, concurrent or not, the
\* store holds exactly one Settings record for that user.
C25_SingletonUnderInterleaving ==
    \A u \in Users :
        CallsReturned(u) => Cardinality(RecordsOf(settings, u)) = 1

\* ------------------------------------------------------------ C26
\* the stored Stock record of a primary key
stockOf(stockId) == stocks[stockId]

\* C26: every transaction stored through the form references a Stock owned
\* by the user who submitted it, also for a ticker that user had no Stock
\* for and another user has one.
C26_FormStockOwnedBySubmitter ==
    \A k \in DOMAIN transactions :
        /\ transactions[k].stockId \in DOMAIN stocks
        /\ stockOf(transactions[k].stockId).userId = transactions[k].userId

\* ------------------------------------------------------------ C27
\* the transactions of userId on stocks of their own, as the form stored them
OwnFormTxs(userId) ==
    SelectSeq(transactions,
        LAMBDA t : t.userId = userId /\ t.stockId \in DOMAIN stockMapOf(userId))

\* holdings entered as buys and never sold show a positive share count in
\* the portfolio summary
BuyIncreasesShares ==
    ( /\ result # None
      /\ result.op = "getPortfolioSummary"
      /\ \A k \in DOMAIN OwnFormTxs(result.userId) :
             OwnFormTxs(result.userId)[k].type = "Buy" )
    => \A k \in DOMAIN result.value : RGt0(result.value[k].shares)

\* a sale entered through the form is counted by the profit/loss report
SellReported ==
    ( /\ result # None
      /\ result.op = "getProfitLossReport"
      /\ \E k \in DOMAIN OwnFormTxs(result.userId) :
             OwnFormTxs(result.userId)[k].type = "Sell" )
    => result.value.daily # << >>

\* C27: a transaction recorded through the form is stored with a kind the
\* engine recognises: one entered as a buy is processed as a buy by
\* getPortfolioSummary (the shares held increase), and one entered as a
\* sell is processed as a sell by getProfitLossReport.
C27_FormKindRecognised ==
    /\ \A k \in DOMAIN transactions : transactions[k].type \in TxTypes
    /\ BuyIncreasesShares
    /\ SellReported

\* ------------------------------------------------------------ C28
\* the buys among the transactions offered to calculateProfitLoss
BuysOnly(previousTransactions) ==
    SelectSeq(previousTransactions, LAMBDA t : t.type = "buy")

\* an earlier sell of the stock is among the transactions offered
EarlierSellOffered ==
    /\ result # None
    /\ result.op = "calculateProfitLoss"
    /\ result.tx.type = "sell"
    /\ \E k \in DOMAIN result.previousTxs : result.previousTxs[k].type = "sell"

\* C28: the profit or loss calculateProfitLoss computes for a sell does not
\* depend on earlier sells of the stock: it is what the call returns when
\* the sells are taken out of previousTransactions, every sell being costed
\* from the oldest buy on.
C28_EarlierSellsIgnored ==
    (result # None /\ result.op = "calculateProfitLoss") =>
        result.value = calculateProfitLoss(result.tx, BuysOnly(result.previousTxs))

\* a sell costed against a lot that an earlier sell of the stock, already
\* stored, was costed against too
C28_Witness ==
    /\ EarlierSellOffered
    /\ BuysOnly(result.previousTxs) # << >>
    /\ \E k \in DOMAIN result.previousTxs :
           /\ result.previousTxs[k].type = "sell"
           /\ \E j \in DOMAIN result.previousTxs :
                  /\ result.previousTxs[j].type = "buy"
                  /\ result.previousTxs[j].date < result.previousTxs[k].date
                  /\ \A i \in DOMAIN result.previousTxs :
                         result.previousTxs[i].type = "buy"
                             => result.previousTxs[j].date <= result.previousTxs[i].date

\* ------------------------------------------------------------ C29
\* the Reports page holds the data of a load
ReportShown == converted # None /\ converted.op = "loadReportData"

\* the currencies of the stocks sold on the day of a daily entry of the
\* report shown
CurrenciesSoldOn(date) ==
    { stockOf(transactions[k].stockId).currency :
        k \in { i \in DOMAIN transactions :
                  /\ transactions[i].userId = converted.userId
                  /\ transactions[i].type = "sell"
                  /\ inRange(transactions[i], converted.start, converted.end)
                  /\ toISODate(transactions[i].date) = date } }

\* C29: every daily entry the Reports page displays carries the engine's
\* figures of that day converted to the default currency: profit, loss and
\* net are the day's profit, loss and net times the conversion rate of the
\* currency sold that day.
C29_DailyConverted ==
    ReportShown =>
        /\ DOMAIN converted.daily = DOMAIN converted.report.daily
        /\ \A k \in DOMAIN converted.report.daily :
               LET day == converted.report.daily[k]
                   shown == converted.daily[k]
               IN  \A cur \in CurrenciesSoldOn(day.date) :
                       CurrenciesSoldOn(day.date) = {cur} =>
                           /\ shown.date = day.date
                           /\ shown.profit = RMul(day.profit, conversionRate(cur))
                           /\ shown.loss = RMul(day.loss, conversionRate(cur))
                           /\ shown.net = RMul(day.net, conversionRate(cur))

\* ------------------------------------------------------------ C30
\* the last status the invocation observed, "none" before the first
LastObserved ==
    IF perm.observed = << >> THEN "none" ELSE perm.observed[Len(perm.observed)]

\* no request after a check that reported granted, never more than three
\* requests, and nothing observed after a status of granted
RequestsBounded ==
    /\ (perm.observed # << >> /\ perm.observed[1] = "granted") => perm.requests = 0
    /\ perm.requests <= 3
    /\ \A i \in 1..(Len(perm.observed) - 1) : perm.observed[i] # "granted"

\* the invocation on native Android has returned true
ReturnedTrue == perm.native /\ perm.pc = "returned" /\ perm.value

\* C30 as stated: on native Android an invocation makes no request when the
\* initial check reports granted, at most three requests otherwise, stops
\* at the first granted, and returns true only if the last status it
\* observed is granted.
C30_TrueOnlyIfGranted ==
    perm.native =>
        /\ RequestsBounded
        /\ ReturnedTrue => LastObserved = "granted"

\* C30 amended: the same bounds on the requests, and the invocation returns
\* true only if the last status it observed is granted or one of its
\* awaited plugin calls threw.
C30_TrueOnlyIfGrantedOrThrew ==
    perm.native =>
        /\ RequestsBounded
        /\ ReturnedTrue => (LastObserved = "granted" \/ perm.threw)

\* three requests made, none granted, the third rejecting: true is returned
C30_Witness ==
    /\ ReturnedTrue
    /\ perm.threw
    /\ perm.requests = 3
    /\ Len(perm.observed) = 3
    /\ LastObserved # "granted"

====
